---- MODULE Spec2Model ----
(***************************************************************************)
(* Model of the guitar tuner's signal-processing core.                     *)
(*                                                                         *)
(*   - CircularBuffer (src/src/circular_buffer.rs) with its iterators      *)
(*     (src/src/iter.rs) and drain;                                        *)
(*   - FFT::rearrange, the bit-reversal permutation, FFT::new, FFT::fft    *)
(*     and FFT::freq_table (src/src/fft.rs);                               *)
(*   - AudioAnalyzer: its windows, the harmonic product spectrum and       *)
(*     strongest_freq (src/src/audio_analysis.rs);                         *)
(*   - App::write_callback, the staging buffer feeding the analyzer        *)
(*     (src/src/app.rs, src/src/audio_analysis.rs);                        *)
(*   - the main thread (App::run, App::swap_device) and the audio thread   *)
(*     (App::write_callback) with the two Mutexes they share;              *)
(*   - Note::from_number and Note::to_str, and the butterflies of          *)
(*     FFT::in_place_transform on f32 for the lengths 2 and 4.             *)
(*   - the note shown by the render loop of App::run from frame to frame,  *)
(*     and the device list that App::swap_device indexes.                  *)
(*                                                                         *)
(* A CircularBuffer is a record [size, start, items]; items is the backing *)
(* storage, a function on 0 .. capacity-1 whose slots hold a value or the  *)
(* marker Uninit (MaybeUninit::uninit or a moved-out slot).  Every method  *)
(* is an operator from the buffer (and its arguments) to the buffer after  *)
(* the call, the value returned and whether the call panicked.             *)
(***************************************************************************)
EXTENDS Integers, Sequences, FiniteSets, TLC

\* ---------------------------------------------------------------- bounds
\* Note numbers given to Note::from_number: 0 .. MaxNoteNumber.
MaxNoteNumber == 72

\* The host lists 0 .. MaxDevice + 1 input devices, numbered from 0.
MaxDevice == 1

\* Samples given to the round trip of FFT::fft are -MaxAmp .. MaxAmp.
MaxAmp == 1

\* AudioAnalyzer::new is called with buffer sizes 1 .. MaxNewSize
MaxNewSize == 3

\* and with zero padding factors 0 .. MaxNewPad.
MaxNewPad == 2

\* The note numbers detected in a frame of the render loop: 0 .. MaxNote.
MaxNote == 2

\* Largest capacity given to CircularBuffer::new.
MaxCap == 3
\* Samples are drawn from 1 .. MaxVal.
MaxVal == 2
\* Number of push_back calls on one buffer.
MaxPush == 5
\* Width of usize in bits (64 in the build, scaled down).
UsizeBits == 5
\* Longest block of samples given to add_samples or to the audio callback.
MaxBlock == 3
\* The block write_callback drains from the staging buffer (1024 in the build,
\* scaled down); the staging buffer holds two such blocks.
DrainBlock == 2
\* Number of samples the audio device delivers in all.
MaxDelivered == 9
\* rearrange is applied to slices of 0 .. 2^MaxLog2 elements.
MaxLog2 == 3
\* Longest spectrum given to apply_harmonic_product_spectrum on its own.
MaxSpectrum == 4
\* Bins of such a spectrum hold 1 .. MaxBin.
MaxBin == 2
\* Largest harmonic count (hps_count is 3 in the build).
MaxHps == 3
\* Largest buffer_size given to AudioAnalyzer::new.
MaxBufferSize == 2
\* Largest zero_padding_factor given to AudioAnalyzer::new.
MaxZeroPad == 1
\* The magnitudes of a transformed window are drawn from 0 .. MaxMag.
MaxMag == 1

Values == 1 .. MaxVal

\* A slot of Box<[MaybeUninit<T>]> that holds no initialized value.
Uninit == 0

VARIABLES
    client,     \* who drives the buffers: "library" (the CircularBuffer API
                \* called method by method), "app" (App's audio callback),
                \* "fft" (FFT::rearrange on a slice), "call" (one function
                \* on its own), "tuner" (an AudioAnalyzer on its own) or
                \* "run" (the main thread and the audio thread)
    buffer,     \* the CircularBuffer under test
    capacity_given, \* the capacity given to CircularBuffer::new
    op,         \* the last call: <<name, arguments...>>
    pre,        \* the buffer as it was before the last call
    ret,        \* what the last call returned
    panicked,   \* the last call panicked (the thread is gone)
    pushed,     \* the items given to push_back since new, in order, for as
                \* long as push_back is the only method called
    only_push,  \* no call other than push_back was made since new
    it,         \* the live iterator, if any: [kind, right, left]
    yielded,    \* what the live iterator yielded: [orig, front, back]
    sample_buffer,  \* App::sample_buffer, the staging buffer
    audio_analyzer, \* App::audio_analyzer
    delivered,      \* number of samples the device delivered so far; the k-th
                    \* sample delivered is the number k
    callback,       \* the last write_callback: [input, staged, drained]
    data,       \* the slice given to FFT::rearrange
    input,      \* the slice as it was before the first rearrange
    passes,     \* number of rearrange calls made on data
    call,       \* the function called on its own, with its arguments and
                \* what it gave: [name, ...]
    tuner,      \* the AudioAnalyzer under test
    signal,     \* the magnitudes the transform gives for the analyzer's
                \* window of samples when that window is not silent
    analysis,   \* the last call on the analyzer under test: [name, ...]
    nan_sign,   \* the sign of the NaN the float unit of this build produces,
                \* "unknown" until a computation meets one
    run         \* App::run and the audio thread: where each thread is, who
                \* holds each Mutex, AppContext's stream and device fields

buffer_vars == <<buffer, capacity_given, op, pre, ret, panicked, pushed, only_push, it, yielded>>

app_vars == <<sample_buffer, audio_analyzer, delivered, callback>>

fft_vars == <<data, input, passes>>

dsp_vars == <<call, tuner, signal, analysis, nan_sign>>

vars == <<client, buffer_vars, app_vars, fft_vars, dsp_vars, run>>

\* ------------------------------------------------------------- Option<T>
None == <<"None">>
Some(x) == <<"Some", x>>

\* ------------------------------------------------------------ sequences
Reverse(s) == [i \in 1 .. Len(s) |-> s[Len(s) + 1 - i]]

Min(a, b) == IF a < b THEN a ELSE b

\* The last n elements of s.
LastN(s, n) == SubSeq(s, Len(s) - n + 1, Len(s))

\* ------------------------------------------------------ modular arithmetic
Pow2(n) == 2 ^ n

UsizeMax == Pow2(UsizeBits) - 1

\* usize::overflowing_add: the wrapped sum and the carry.
overflowing_add(x, y) == <<(x + y) % Pow2(UsizeBits), x + y > UsizeMax>>

\* An add_mod that forgets the carry of overflowing_add: what it must not be.
add_mod_drops_carry(x, y, m) == overflowing_add(x, y)[1] % m

\* z + (overflow as usize) * (usize::MAX % m + 1) exceeds usize::MAX: a
\* panic where overflow checks are on.
add_mod_overflows(x, y, m) ==
    LET zo == overflowing_add(x, y)
    IN zo[1] + (IF zo[2] THEN 1 ELSE 0) * ((UsizeMax % m) + 1) > UsizeMax

\* m - y of sub_mod goes below zero, or its add_mod overflows.
sub_mod_overflows(x, y, m) == y > m \/ add_mod_overflows(x, m - y, m)

add_mod(x, y, m) ==
    LET zo == overflowing_add(x, y)
        z == zo[1]
        overflow == IF zo[2] THEN 1 ELSE 0
    IN ((z + overflow * ((UsizeMax % m) + 1)) % Pow2(UsizeBits)) % m

sub_mod(x, y, m) == add_mod(x, m - y, m)

\* --------------------------------------------------------- CircularBuffer
new(cap) == [size |-> 0, start |-> 0, items |-> [i \in 0 .. cap - 1 |-> Uninit]]

len(b) == b.size

capacity(b) == Cardinality(DOMAIN b.items)

is_empty(b) == b.size = 0

is_full(b) == b.size = capacity(b)

\* &items[a..b] as a sequence.
Slice(items, a, b) == [i \in 1 .. b - a |-> items[a + i - 1]]

\* <[T]>::rotate_left(mid)
rotate_left(items, mid) ==
    LET n == Cardinality(DOMAIN items)
    IN [i \in DOMAIN items |-> items[(i + mid) % n]]

\* inc_start without the reduction modulo the capacity.
inc_start_no_wrap(b) == [b EXCEPT !.start = b.start + 1]

inc_start(b) == [b EXCEPT !.start = add_mod(b.start, 1, capacity(b))]

dec_start(b) == [b EXCEPT !.start = sub_mod(b.start, 1, capacity(b))]

\* inc_size that grows the buffer by two.
inc_size_twice(b) == [b EXCEPT !.size = b.size + 2]


inc_size(b) == [b EXCEPT !.size = b.size + 1]

dec_size(b) == [b EXCEPT !.size = b.size - 1]

\* The storage index of the element at logical position index (0 = front).
get_index(b, index) == add_mod(b.start, index, capacity(b))

\* The logical sequence, front (oldest) first, read through get_maybe_uninit.
Contents(b) ==
    IF capacity(b) = 0 THEN <<>>
    ELSE [i \in 1 .. b.size |-> b.items[get_index(b, i - 1)]]

Result(b, r, p) == [buf |-> b, ret |-> r, panic |-> p]

\* A bounds-checked index (items[i]) or a remainder by the capacity failed.
Panic(b) == Result(b, None, TRUE)

\* items[i] is in bounds.
InBounds(b, i) == i \in DOMAIN b.items

\* push_back with the start offset left alone when the oldest slot is overwritten.
push_back_no_inc_start(b, item) ==
    IF capacity(b) = 0 THEN Result(b, Some(item), FALSE)
    ELSE IF b.size >= capacity(b)
    THEN IF ~InBounds(b, b.start) THEN Panic(b)
         ELSE LET replaced_item == b.items[b.start]
                  b1 == [b EXCEPT !.items[b.start] = item]
              IN Result(b1, Some(replaced_item), FALSE)
    ELSE LET b1 == inc_size(b)
             back == add_mod(b1.start, b1.size - 1, capacity(b1))
         IN Result([b1 EXCEPT !.items[back] = item], None, FALSE)

\* push_back with the arguments of mem::replace the wrong way round in effect:
\* the pushed item comes back instead of the displaced one.
push_back_returns_item(b, item) ==
    IF capacity(b) = 0 THEN Result(b, Some(item), FALSE)
    ELSE IF b.size >= capacity(b)
    THEN IF ~InBounds(b, b.start) THEN Panic(b)
         ELSE LET b1 == [b EXCEPT !.items[b.start] = item]
              IN Result(inc_start(b1), Some(item), FALSE)
    ELSE LET b1 == inc_size(b)
             back == add_mod(b1.start, b1.size - 1, capacity(b1))
         IN Result([b1 EXCEPT !.items[back] = item], None, FALSE)

\* push_back that swallows the item of a buffer without storage.
push_back_drops_item(b, item) ==
    IF capacity(b) = 0 THEN Result(b, None, FALSE)
    ELSE IF b.size >= capacity(b)
    THEN IF ~InBounds(b, b.start) THEN Panic(b)
         ELSE LET replaced_item == b.items[b.start]
                  b1 == [b EXCEPT !.items[b.start] = item]
              IN Result(inc_start(b1), Some(replaced_item), FALSE)
    ELSE LET b1 == inc_size(b)
             back == add_mod(b1.start, b1.size - 1, capacity(b1))
         IN Result([b1 EXCEPT !.items[back] = item], None, FALSE)


push_back(b, item) ==
    IF capacity(b) = 0 THEN Result(b, Some(item), FALSE)
    ELSE IF b.size >= capacity(b)
    THEN IF ~InBounds(b, b.start) THEN Panic(b)
         ELSE LET replaced_item == b.items[b.start]
                  b1 == [b EXCEPT !.items[b.start] = item]
              IN Result(inc_start(b1), Some(replaced_item), FALSE)
    ELSE LET b1 == inc_size(b)
             back == add_mod(b1.start, b1.size - 1, capacity(b1))
         IN Result([b1 EXCEPT !.items[back] = item], None, FALSE)

\* pop_back that leaves the size alone: the emptied slot stays in the region.
pop_back_keeps_size(b) ==
    IF capacity(b) = 0 \/ b.size = 0 THEN Result(b, None, FALSE)
    ELSE LET back == add_mod(b.start, b.size - 1, capacity(b))
             b1 == [b EXCEPT !.items[back] = Uninit]
         IN Result(b1, Some(b.items[back]), FALSE)

pop_back(b) ==
    IF capacity(b) = 0 \/ b.size = 0 THEN Result(b, None, FALSE)
    ELSE LET back == add_mod(b.start, b.size - 1, capacity(b))
             b1 == [b EXCEPT !.items[back] = Uninit]
         IN Result(dec_size(b1), Some(b.items[back]), FALSE)

\* pop_front that forgets inc_start.
pop_front_no_inc_start(b) ==
    IF capacity(b) = 0 \/ b.size = 0 THEN Result(b, None, FALSE)
    ELSE IF ~InBounds(b, b.start) THEN Panic(b)
    ELSE LET b1 == [b EXCEPT !.items[b.start] = Uninit]
         IN Result(dec_size(b1), Some(b.items[b.start]), FALSE)


pop_front(b) ==
    IF capacity(b) = 0 \/ b.size = 0 THEN Result(b, None, FALSE)
    ELSE IF ~InBounds(b, b.start) THEN Panic(b)
    ELSE LET b1 == [b EXCEPT !.items[b.start] = Uninit]
         IN Result(inc_start(dec_size(b1)), Some(b.items[b.start]), FALSE)

\* as_slices with the two halves of a wrapped buffer exchanged.
as_slices_swapped(b) ==
    IF capacity(b) = 0 \/ b.size = 0 THEN <<<<>>, <<>>>>
    ELSE LET start == b.start
             end == add_mod(b.start, b.size, capacity(b))
         IN IF start < end
            THEN <<Slice(b.items, start, end), <<>>>>
            ELSE <<Slice(b.items, 0, end), Slice(b.items, start, capacity(b))>>


as_slices(b) ==
    IF capacity(b) = 0 \/ b.size = 0 THEN <<<<>>, <<>>>>
    ELSE LET start == b.start
             end == add_mod(b.start, b.size, capacity(b))
         IN IF start < end
            THEN <<Slice(b.items, start, end), <<>>>>
            ELSE <<Slice(b.items, start, capacity(b)), Slice(b.items, 0, end)>>

as_mut_slices(b) ==
    IF capacity(b) = 0 \/ b.size = 0 THEN <<<<>>, <<>>>>
    ELSE LET start == b.start
             end == add_mod(b.start, b.size, capacity(b))
         IN IF start < end
            THEN <<Slice(b.items, start, end), <<>>>>
            ELSE <<Slice(b.items, start, capacity(b)), Slice(b.items, 0, end)>>

\* make_contiguous that rotates by the end offset instead of the start offset.
make_contiguous_rotate_end(b) ==
    IF capacity(b) = 0 \/ b.size = 0 THEN Result(b, <<>>, FALSE)
    ELSE LET start == b.start
             end == add_mod(start, b.size, capacity(b))
         IN IF start < end
            THEN Result(b, Slice(b.items, start, end), FALSE)
            ELSE LET b1 == [b EXCEPT !.start = 0,
                                     !.items = rotate_left(b.items, end)]
                 IN Result(b1, Slice(b1.items, 0, b1.size), FALSE)

\* make_contiguous that rotates the storage and keeps the old start offset.
make_contiguous_keeps_start(b) ==
    IF capacity(b) = 0 \/ b.size = 0 THEN Result(b, <<>>, FALSE)
    ELSE LET start == b.start
             end == add_mod(start, b.size, capacity(b))
         IN IF start < end
            THEN Result(b, Slice(b.items, start, end), FALSE)
            ELSE LET b1 == [b EXCEPT !.items = rotate_left(b.items, start)]
                 IN Result(b1, Slice(b1.items, 0, b1.size), FALSE)


make_contiguous(b) ==
    IF capacity(b) = 0 \/ b.size = 0 THEN Result(b, <<>>, FALSE)
    ELSE LET start == b.start
             end == add_mod(start, b.size, capacity(b))
         IN IF start < end
            THEN Result(b, Slice(b.items, start, end), FALSE)
            ELSE LET b1 == [b EXCEPT !.start = 0,
                                     !.items = rotate_left(b.items, start)]
                 IN Result(b1, Slice(b1.items, 0, b1.size), FALSE)

\* A Range<usize> lo..hi is <<lo, hi>> (Bound::Included(lo), Bound::Excluded(hi)).
\* The two assert! of translate_range_bounds are its panics.
\* translate_range_bounds that asserts end < buf.len().
translate_range_bounds_strict(b, range) ==
    LET start == range[1]
        end == range[2]
    IN [start |-> start, end |-> end,
        panic |-> ~(end < len(b)) \/ ~(start <= end)]


translate_range_bounds(b, range) ==
    LET start == range[1]
        end == range[2]
    IN [start |-> start, end |-> end,
        panic |-> ~(end <= len(b)) \/ ~(start <= end)]

\* Drain::over_range and Drain's iteration and drop (crate::drain, whose source
\* is not among the files modelled here): the elements at the logical positions
\* start..end are yielded in order and removed; the elements behind them close
\* the gap.
drain(b, range) ==
    LET t == translate_range_bounds(b, range)
    IN IF t.panic THEN Result(b, <<>>, TRUE)
       ELSE LET c == Contents(b)
                rest == SubSeq(c, 1, t.start) \o SubSeq(c, t.end + 1, Len(c))
                kept == {get_index(b, i - 1) : i \in 1 .. Len(rest)}
                items1 == [j \in DOMAIN b.items |->
                             IF j \in kept
                             THEN rest[CHOOSE i \in 1 .. Len(rest) :
                                         get_index(b, i - 1) = j]
                             ELSE Uninit]
            IN Result([b EXCEPT !.size = Len(rest), !.items = items1],
                      SubSeq(c, t.start + 1, t.end), FALSE)

\* ------------------------------------------------------------- iterators
\* Iter and IterMut hold two slices; IntoIter holds the buffer itself.
NoIter == [kind |-> "none", right |-> <<>>, left |-> <<>>]

NoYield == [orig |-> <<>>, front |-> <<>>, back |-> <<>>]

Iter_new(b) ==
    LET s == as_slices(b) IN [kind |-> "iter", right |-> s[1], left |-> s[2]]

IterMut_new(b) ==
    LET s == as_mut_slices(b) IN [kind |-> "iter_mut", right |-> s[1], left |-> s[2]]

IntoIter_new(b) == [kind |-> "into_iter", right |-> <<>>, left |-> <<>>]

\* Iter::next and IterMut::next: the first of right, else the first of left.
Iter_next(i) ==
    IF Len(i.right) > 0
    THEN [it |-> [i EXCEPT !.right = Tail(i.right)], ret |-> Some(Head(i.right))]
    ELSE IF Len(i.left) > 0
    THEN [it |-> [i EXCEPT !.left = Tail(i.left)], ret |-> Some(Head(i.left))]
    ELSE [it |-> i, ret |-> None]

\* Iter::next_back and IterMut::next_back: the last of left, else the last of right.
Iter_next_back(i) ==
    IF Len(i.left) > 0
    THEN [it |-> [i EXCEPT !.left = SubSeq(i.left, 1, Len(i.left) - 1)],
          ret |-> Some(i.left[Len(i.left)])]
    ELSE IF Len(i.right) > 0
    THEN [it |-> [i EXCEPT !.right = SubSeq(i.right, 1, Len(i.right) - 1)],
          ret |-> Some(i.right[Len(i.right)])]
    ELSE [it |-> i, ret |-> None]

\* IntoIter::next and IntoIter::next_back
IntoIter_next(b) == pop_front(b)

IntoIter_next_back(b) == pop_back(b)

\* ------------------------------------------------------- debug assertions
\* The debug_assert!s of add_mod(x, y, m).
add_mod_asserts(x, y, m) == m > 0 /\ x <= m /\ y <= m

\* The debug_assert!s of sub_mod(x, y, m) and of the add_mod it calls.
sub_mod_asserts(x, y, m) ==
    m > 0 /\ x <= m /\ y <= m /\ add_mod_asserts(x, m - y, m)

\* as_mut_slices, as_slices and make_contiguous on a buffer that holds
\* something: "start out-of-bounds", "size out-of-bounds", then add_mod.
slices_asserts(b) ==
    capacity(b) = 0 \/ b.size = 0
    \/ /\ b.start < capacity(b)
       /\ b.size <= capacity(b)
       /\ add_mod_asserts(b.start, b.size, capacity(b))

\* front_maybe_uninit and front_maybe_uninit_mut: "empty buffer",
\* "size out-of-bounds", "start out-of-bounds".
front_maybe_uninit_asserts(b) ==
    b.size > 0 /\ b.size <= capacity(b) /\ b.start < capacity(b)

\* back_maybe_uninit and back_maybe_uninit_mut: the same three, then
\* add_mod(start, size - 1, capacity).
back_maybe_uninit_asserts(b) ==
    /\ b.size > 0 /\ b.size <= capacity(b) /\ b.start < capacity(b)
    /\ add_mod_asserts(b.start, b.size - 1, capacity(b))

\* inc_start: "start out-of-bounds", then add_mod(start, 1, capacity).
inc_start_asserts(b) ==
    b.start < capacity(b) /\ add_mod_asserts(b.start, 1, capacity(b))

\* inc_size: "size out-of-bounds" and "size at capacity limit".
inc_size_asserts(b) == b.size <= capacity(b) /\ b.size < capacity(b)

\* dec_size: "size is 0".
dec_size_asserts(b) == b.size > 0

\* The assertions met by pop_back and by pop_front, in the order of the calls.
pop_asserts(b) ==
    capacity(b) = 0 \/ b.size = 0
    \/ /\ back_maybe_uninit_asserts(b)
       /\ front_maybe_uninit_asserts(b)
       /\ dec_size_asserts(b)
       /\ inc_start_asserts(dec_size(b))

\* The assertions met by push_back: the overwrite of a full buffer, else
\* inc_size and the write at the new back.
push_back_asserts(b) ==
    capacity(b) = 0
    \/ IF b.size >= capacity(b)
       THEN front_maybe_uninit_asserts(b) /\ inc_start_asserts(b)
       ELSE inc_size_asserts(b) /\ back_maybe_uninit_asserts(inc_size(b))

\* ------------------------------------------------ reads of uninitialized slots
\* assume_init on a slot that holds no value is undefined behaviour: the value
\* read is any value of the type.
ReadOption(r) == IF r = Some(Uninit) THEN {Some(v) : v \in Values} ELSE {r}

ReadSlice(s) ==
    {t \in [1 .. Len(s) -> Values \cup {Uninit}] :
        \A i \in 1 .. Len(s) : IF s[i] = Uninit THEN t[i] \in Values ELSE t[i] = s[i]}

\* ------------------------------------------------------------ bit operations
RECURSIVE BitAnd(_, _)
\* x & y
BitAnd(x, y) ==
    IF x = 0 \/ y = 0 THEN 0
    ELSE 2 * BitAnd(x \div 2, y \div 2) + (IF x % 2 = 1 /\ y % 2 = 1 THEN 1 ELSE 0)

\* x & !y
BitClear(x, y) == x - BitAnd(x, y)

\* x | y
BitOr(x, y) == x + y - BitAnd(x, y)

RECURSIVE BitLen(_)
\* Number of bits of n without its leading zeros.
BitLen(n) == IF n = 0 THEN 0 ELSE 1 + BitLen(n \div 2)

leading_zeros(n) == UsizeBits - BitLen(n)

is_power_of_two(n) == n > 0 /\ BitAnd(n, n - 1) = 0

\* lower_power_of_two shifting one place too far.
lower_power_of_two_shifts_more(n) ==
    IF n = 0 THEN 0
    ELSE IF ~(BitAnd(n, n - 1) # 0) THEN n
    ELSE Pow2(UsizeBits - 1) \div Pow2(leading_zeros(n) + 1)

\* n = 0: n - 1 wraps to usize::MAX in a release build and 0 is returned.
lower_power_of_two(n) ==
    IF n = 0 THEN 0
    ELSE IF ~(BitAnd(n, n - 1) # 0) THEN n
    ELSE Pow2(UsizeBits - 1) \div Pow2(leading_zeros(n))

\* n - 1 overflows: a panic where overflow checks are on, a wrap elsewhere.
lower_power_of_two_overflows(n) == n = 0

\* ------------------------------------------------------------------- f32
\* An f32 is modelled by an integer (the products and comparisons of the
\* analysis are exact on the values used) or by NaN.
NaN == -1

\* a * b
FMul(a, b) == IF a = NaN \/ b = NaN THEN NaN ELSE a * b

\* The f32 a stored sample stands for: the samples in a ring are numbered
\* from 1 (0 marks a slot that holds nothing), sample 1 is 0.0, sample 2 is
\* 1.0, ...
SampleValue(v) == v - 1

\* a.total_cmp(b) is not Greater.  A NaN with the sign bit clear is above
\* every number and a NaN with the sign bit set below; which of the two an
\* operation produces depends on the platform (nan_positive).
total_le(a, b, nan_positive) ==
    IF a = NaN /\ b = NaN THEN TRUE
    ELSE IF a = NaN THEN ~nan_positive
    ELSE IF b = NaN THEN nan_positive
    ELSE a <= b

\* ------------------------------------------------------------------ Note
NOTE_NAMES == <<"C", "C#", "D", "D#", "E", "F", "F#", "G", "G#", "A", "A#", "B">>

\* Note::to_str
to_str(note) ==
    CASE note = "C" -> NOTE_NAMES[0 + 1]
      [] note = "CSharp" -> NOTE_NAMES[1 + 1]
      [] note = "D" -> NOTE_NAMES[2 + 1]
      [] note = "DSharp" -> NOTE_NAMES[3 + 1]
      [] note = "E" -> NOTE_NAMES[4 + 1]
      [] note = "F" -> NOTE_NAMES[5 + 1]
      [] note = "FSharp" -> NOTE_NAMES[6 + 1]
      [] note = "G" -> NOTE_NAMES[7 + 1]
      [] note = "GSharp" -> NOTE_NAMES[8 + 1]
      [] note = "A" -> NOTE_NAMES[9 + 1]
      [] note = "ASharp" -> NOTE_NAMES[10 + 1]
      [] note = "B" -> NOTE_NAMES[11 + 1]
      [] note = "INVALID" -> "ZENIS"

\* The arms of the match in Note::from_number on the value matched; the
\* last arm is unreachable!(), a panic.
from_number_match(matched) ==
    CASE matched = 0 -> [ret |-> "C", panic |-> FALSE]
      [] matched = 1 -> [ret |-> "CSharp", panic |-> FALSE]
      [] matched = 2 -> [ret |-> "D", panic |-> FALSE]
      [] matched = 3 -> [ret |-> "DSharp", panic |-> FALSE]
      [] matched = 4 -> [ret |-> "E", panic |-> FALSE]
      [] matched = 5 -> [ret |-> "F", panic |-> FALSE]
      [] matched = 6 -> [ret |-> "FSharp", panic |-> FALSE]
      [] matched = 7 -> [ret |-> "G", panic |-> FALSE]
      [] matched = 8 -> [ret |-> "GSharp", panic |-> FALSE]
      [] matched = 9 -> [ret |-> "A", panic |-> FALSE]
      [] matched = 10 -> [ret |-> "ASharp", panic |-> FALSE]
      [] matched = 11 -> [ret |-> "B", panic |-> FALSE]
      [] OTHER -> [ret |-> "INVALID", panic |-> TRUE]

\* A from_number that matches on the number itself: what it must not be.
from_number_without_remainder(number) == from_number_match(number)

\* Note::from_number
from_number(number) == from_number_match(number % 12)

\* ---------------------------------------------------------- AudioAnalyzer
\* The analyzer's ring buffer; buffer_size is 1024 * 50 in the build.
AnalyzerBufferSize == 3 * DrainBlock

\* build_hann_window(size): 0.5 * (1 - cos(2 pi i / (size - 1))).  With
\* size = 1 the quotient is 0 / 0 and the only entry is NaN; otherwise the
\* window is 0 at both ends and positive between them.  The cosine is not
\* computed: an entry is an integer weight of the same shape.
build_hann_window(size) ==
    [i \in 0 .. size - 1 |-> IF size = 1 THEN NaN ELSE Min(i, size - 1 - i)]

\* build_hamming_window(size): 0.54 - 0.46 * cos(2 pi i / size), positive
\* everywhere; an entry is an integer weight of the same shape.
build_hamming_window(size) ==
    [i \in 0 .. size - 1 |-> 1 + Min(i, size - i)]

\* vec![0.0; n]
Zeros(n) == [i \in 0 .. n - 1 |-> 0]

\* a * b in usize where the product wraps.
wrapping_mul(a, b) == (a * b) % Pow2(UsizeBits)

\* buffer_size * (1 + zero_padding_factor) overflows usize: a panic where
\* overflow checks are on.
AudioAnalyzer_new_overflows(buffer_size, zero_padding_factor) ==
    buffer_size * (1 + zero_padding_factor) > UsizeMax

\* AudioAnalyzer::new with a result buffer as long as the scratch buffer.
AudioAnalyzer_new_full_result(sample_rate, buffer_size, hps_count, zero_padding_factor, a4_freq, window_type) ==
    LET padded == lower_power_of_two(
                      wrapping_mul(buffer_size, 1 + zero_padding_factor))
    IN [window |-> IF window_type = "Hamming"
                   THEN build_hamming_window(lower_power_of_two(buffer_size))
                   ELSE build_hann_window(lower_power_of_two(buffer_size)),
        buffer |-> new(lower_power_of_two(buffer_size)),
        padded_buffer |-> Zeros(padded),
        a4_freq |-> a4_freq,
        hps_count |-> hps_count,
        sample_rate |-> sample_rate,
        result_buffer |-> Zeros(padded)]

\* AudioAnalyzer::new(sample_rate, buffer_size, hps_count,
\*                    zero_padding_factor, a4_freq, window_type)
AudioAnalyzer_new(sample_rate, buffer_size, hps_count, zero_padding_factor, a4_freq, window_type) ==
    LET padded == lower_power_of_two(
                      wrapping_mul(buffer_size, 1 + zero_padding_factor))
    IN [window |-> IF window_type = "Hamming"
                   THEN build_hamming_window(lower_power_of_two(buffer_size))
                   ELSE build_hann_window(lower_power_of_two(buffer_size)),
        buffer |-> new(lower_power_of_two(buffer_size)),
        padded_buffer |-> Zeros(padded),
        a4_freq |-> a4_freq,
        hps_count |-> hps_count,
        sample_rate |-> sample_rate,
        result_buffer |-> Zeros(padded \div 2)]

RECURSIVE push_all(_, _)
\* samples.iter().for_each(|sample| { buffer.push_back(*sample); })
push_all(b, samples) ==
    IF samples = <<>> THEN b
    ELSE push_all(push_back(b, Head(samples)).buf, Tail(samples))

\* An add_samples that pushes the block last sample first: what it must
\* not be.
add_samples_backwards(a, samples) == [a EXCEPT !.buffer = push_all(a.buffer, [i \in 1 .. Len(samples) |-> samples[Len(samples) + 1 - i]])]

\* AudioAnalyzer::add_samples
add_samples(a, samples) == [a EXCEPT !.buffer = push_all(a.buffer, samples)]

\* -------------------------------------------------------------------- App
\* CircularBuffer::new(2048), two blocks of 1024.
StagingCap == 2 * DrainBlock

RECURSIVE push_all_returns(_, _)
\* What the calls `let _ = buffer.push_back(input[i])` return and drop: the
\* samples displaced from a full buffer, in the order of the calls.
push_all_returns(b, samples) ==
    IF samples = <<>> THEN <<>>
    ELSE LET r == push_back(b, Head(samples))
         IN (IF r.ret = None THEN <<>> ELSE <<r.ret[2]>>)
            \o push_all_returns(r.buf, Tail(samples))

\* write_callback(input, buffer, analyzer), both locks held throughout.
write_callback(in, buf, analyzer) ==
    LET b1 == push_all(buf, in)
    IN IF len(b1) >= DrainBlock
       THEN LET d == drain(b1, <<0, DrainBlock>>)
            IN [buffer |-> d.buf,
                analyzer |-> IF d.panic THEN analyzer
                             ELSE add_samples(analyzer, d.ret),
                panic |-> d.panic,
                staged |-> Contents(b1),
                drains |-> TRUE,
                drained |-> d.ret,
                evicted |-> push_all_returns(buf, in)]
       ELSE [buffer |-> b1, analyzer |-> analyzer, panic |-> FALSE,
             staged |-> Contents(b1), drains |-> FALSE, drained |-> <<>>,
             evicted |-> push_all_returns(buf, in)]

NoCallback ==
    [input |-> <<>>, staged |-> <<>>, drains |-> FALSE, drained |-> <<>>,
     evicted |-> <<>>, panic |-> FALSE]

\* -------------------------------------------------------------------- FFT
\* A slice is a function on 0 .. len-1.
SliceLen(d) == Cardinality(DOMAIN d)

EmptySlice == [i \in {} |-> 0]

swap(d, a, b) == [d EXCEPT ![a] = d[b], ![b] = d[a]]

RECURSIVE mask_walk(_, _)
\* loop { mask >>= 1; if target & mask != 0 { target &= !mask } else { break } }
\* gives <<target, mask>> at the break.
mask_walk(target, mask) ==
    LET m == mask \div 2
    IN IF BitAnd(target, m) # 0 THEN mask_walk(BitClear(target, m), m)
       ELSE <<target, m>>

\* The closure of rearrange swapping whenever target differs from position.
rearrange_step_swaps_twice(st, position) ==
    LET hit == st.target # position
        out == hit /\ st.target \notin DOMAIN st.data
        d == IF hit /\ ~out THEN swap(st.data, st.target, position)
             ELSE st.data
        w == mask_walk(st.target, SliceLen(st.data))
    IN [data |-> d, target |-> BitOr(w[1], w[2]), panic |-> st.panic \/ out]

\* The closure of rearrange at one position; st is [data, target, panic].
\* data.swap(target, position) panics when target is not an index of data.
rearrange_step(st, position) ==
    LET hit == st.target > position
        out == hit /\ st.target \notin DOMAIN st.data
        d == IF hit /\ ~out THEN swap(st.data, st.target, position)
             ELSE st.data
        w == mask_walk(st.target, SliceLen(st.data))
    IN [data |-> d, target |-> BitOr(w[1], w[2]), panic |-> st.panic \/ out]

RECURSIVE rearrange_from(_, _)
\* (position..len).for_each(...)
rearrange_from(st, position) ==
    IF position >= SliceLen(st.data) \/ st.panic THEN st
    ELSE rearrange_from(rearrange_step(st, position), position + 1)

rearrange_run(d) == rearrange_from([data |-> d, target |-> 0, panic |-> FALSE], 0)

rearrange(d) == rearrange_run(d).data

\* The steps of in_place_transform: 1, 2, 4, ... below len.
Steps(length) == {Pow2(k) : k \in 0 .. UsizeBits - 1} \cap 0 .. length - 1

\* The positions pair_position takes for one step: group, group + jump, ...
\* while below len, for every group in 0..step.
PairPositions(length, step) ==
    {p \in 0 .. length - 1 : p % (2 * step) < step}

\* in_place_transform panics: at its own check of the length, or when
\* data[match_position] is read outside the slice.  The butterflies are
\* arithmetic on Complex<f32>; only the positions they touch are modelled.
\* (len = 0, which no caller in the model passes: len - 1 wraps and
\* 0 & MAX = 0, or the subtraction panics where overflow checks are on.)
in_place_transform_panics(length) ==
    \/ length > 0 /\ BitAnd(length, length - 1) # 0
    \/ \E step \in Steps(length) :
          \E pair_position \in PairPositions(length, step) :
              pair_position + step >= length

\* The slice after in_place_transform: the butterflies applied to what
\* rearrange left.
Transformed(d) == [butterflies_of |-> d]

\* FFT::fft running the butterflies before it looks at the length.
fft_transforms_first(d) ==
    LET r == rearrange_run(d)
        bad == in_place_transform_panics(SliceLen(d))
    IN IF r.panic \/ bad THEN [ret |-> "panic", panic |-> TRUE, data |-> r.data]
       ELSE IF ~is_power_of_two(SliceLen(d))
       THEN [ret |-> "Err", panic |-> FALSE, data |-> r.data]
       ELSE [ret |-> "Ok", panic |-> FALSE, data |-> Transformed(r.data)]

\* FFT::fft(data, direction, scale)
fft(d) ==
    LET r == rearrange_run(d)
    IN IF r.panic THEN [ret |-> "panic", panic |-> TRUE, data |-> r.data]
       ELSE IF ~is_power_of_two(SliceLen(d))
       THEN [ret |-> "Err", panic |-> FALSE, data |-> r.data]
       ELSE IF in_place_transform_panics(SliceLen(d))
       THEN [ret |-> "panic", panic |-> TRUE, data |-> r.data]
       ELSE [ret |-> "Ok", panic |-> FALSE, data |-> Transformed(r.data)]

\* FFT::new(data, direction): data[0..len] panics when len > data.len().
FFT_new(d) ==
    LET n == SliceLen(d)
        length == IF ~is_power_of_two(n) THEN lower_power_of_two(n) ELSE n
    IN [data |-> [i \in 0 .. Min(length, n) - 1 |-> d[i]],
        panic |-> length > n]

\* fft.transform(scale): rearrange, then in_place_transform.
transform_panics(d) ==
    rearrange_run(d).panic \/ in_place_transform_panics(SliceLen(d))

\* ------------------------------------------------- Complex<f32> butterflies
\* The butterflies of in_place_transform, computed for the lengths whose
\* twiddle factors are 1, i and -i (lengths 1, 2 and 4).  An f32 is kept as
\* an integer count of quarters (Quarter stands for 1.0), a Complex<f32> as
\* <<re, im>>.  Every operation rounds to the 24-bit significand of f32, to
\* nearest, ties to even; the exponent range is not reached.
Significand == 24

Quarter == Pow2(2)

Abs(x) == IF x < 0 THEN -x ELSE x

\* The spacing of the f32 values at magnitude m.
RECURSIVE ulp(_, _)
ulp(m, q) == IF m < q * Pow2(Significand) THEN q ELSE ulp(m, 2 * q)

\* The f32 nearest to v.
round_f32(v) ==
    LET m == Abs(v)
        q == ulp(m, 1)
        lo == (m \div q) * q
        rem == m - lo
        up == \/ 2 * rem > q
              \/ 2 * rem = q /\ (lo \div q) % 2 = 1
        r == IF up THEN lo + q ELSE lo
    IN IF v < 0 THEN -r ELSE r

\* a + b, a - b on f32
f32_add(a, b) == round_f32(a + b)
f32_sub(a, b) == round_f32(a - b)

\* a * b on f32, a in quarters and b a plain number (a twiddle component)
f32_mul(a, b) == round_f32(a * b)

complex_add(a, b) == <<f32_add(a[1], b[1]), f32_add(a[2], b[2])>>
complex_sub(a, b) == <<f32_sub(a[1], b[1]), f32_sub(a[2], b[2])>>

\* factor * value: (a + bi)(c + di) = (ac - bd) + (ad + bc)i
complex_mul(factor, value) ==
    <<f32_sub(f32_mul(value[1], factor[1]), f32_mul(value[2], factor[2])),
      f32_add(f32_mul(value[2], factor[1]), f32_mul(value[1], factor[2]))>>

\* A multiplier whose angle has the sign of the forward transform in both
\* directions: what the multiplier must not be.
multiplier_forward_only(direction, step) ==
    IF step = 1 THEN <<-2, 0>> ELSE <<-1, -1>>

\* Complex::new(-2.0 * sin * sin, delta.sin()) with delta = -PI / step for
\* Forward, PI / step for Inverse and sin = (delta * 0.5).sin(): step 1
\* gives (-2, 0), step 2 gives (-1, -1) or (-1, 1).  The sines of these
\* angles are taken as exact.
multiplier(direction, step) ==
    IF step = 1 THEN <<-2, 0>>
    ELSE <<-1, IF direction = "Forward" THEN -1 ELSE 1>>

RECURSIVE butterfly_pairs(_, _, _, _)
\* while pair_position < len { ... pair_position += jump }
butterfly_pairs(d, factor, pair_position, step) ==
    IF pair_position >= SliceLen(d) THEN d
    ELSE LET match_position == pair_position + step
             product == complex_mul(factor, d[match_position])
             d1 == [d EXCEPT ![match_position] = complex_sub(d[pair_position], product),
                             ![pair_position] = complex_add(d[pair_position], product)]
         IN butterfly_pairs(d1, factor, pair_position + 2 * step, step)

RECURSIVE butterfly_groups(_, _, _, _, _)
\* (0..step).for_each(|group| { ...; factor = multiplier * factor + factor })
butterfly_groups(d, factor, group, step, mult) ==
    IF group >= step THEN d
    ELSE butterfly_groups(butterfly_pairs(d, factor, group, step),
                          <<f32_add(f32_sub(mult[1] * factor[1], mult[2] * factor[2]), factor[1]),
                            f32_add(f32_add(mult[1] * factor[2], mult[2] * factor[1]), factor[2])>>,
                          group + 1, step, mult)

RECURSIVE butterfly_steps(_, _, _)
\* while step < len { ...; step <<= 1 }
butterfly_steps(d, direction, step) ==
    IF step >= SliceLen(d) THEN d
    ELSE butterfly_steps(butterfly_groups(d, <<1, 0>>, 0, step, multiplier(direction, step)),
                         direction, 2 * step)

\* FFT::scale: every element times 1.0 / len, exact for a power of two.
scale(d) == [i \in DOMAIN d |-> <<d[i][1] \div SliceLen(d), d[i][2] \div SliceLen(d)>>]

\* in_place_transform(data, direction, scale) on a power-of-two length
in_place_transform(d, direction, scaled) ==
    LET t == butterfly_steps(d, direction, 1)
    IN IF scaled THEN scale(t) ELSE t

\* FFT::fft(data, direction, scale) on a power-of-two length: the data it
\* leaves.
fft_data(d, direction, scaled) == in_place_transform(rearrange(d), direction, scaled)

\* FFT::freq_table(n, scalar).  Every entry is x as f32 * val with
\* val = 1.0 / (n as f32 * scalar): the table is kept as the integers x.
\* (n = 0: n - 1 wraps, n_c as i32 is negative and both ranges are empty.)
freq_table(n) ==
    IF n = 0 THEN EmptySlice
    ELSE LET n_c == (n - 1) \div 2 + 1
             half == n \div 2
         IN [i \in 0 .. n_c + half - 1 |->
                IF i < n_c THEN i ELSE (i - n_c) - half]

\* ------------------------------------------- harmonic product spectrum
\* a.div_ceil(b) rounding down instead.
div_floor(a, b) == a \div b

\* a.div_ceil(b)
div_ceil(a, b) == (a + b - 1) \div b

\* slice.iter().step_by(i): elements 0, i, 2i, ...
step_by(d, i) == [k \in 0 .. div_ceil(SliceLen(d), i) - 1 |-> d[k * i]]

\* One harmonic multiplying by what the buffer holds now, not by the copy.
hps_step_reads_buffer(buffer_, copy, i) ==
    LET hps_len == div_ceil(SliceLen(buffer_), i)
        strided == step_by(buffer_, i)
        n == Min(hps_len, SliceLen(strided))
    IN [b \in DOMAIN buffer_ |->
           IF b < n THEN FMul(buffer_[b], strided[b]) ELSE buffer_[b]]

\* The body of the loop for harmonic i:
\* buffer[..hps_len].iter_mut().zip(copy.iter().step_by(i)), *a *= b.
hps_step(buffer_, copy, i) ==
    LET hps_len == div_ceil(SliceLen(buffer_), i)
        strided == step_by(copy, i)
        n == Min(hps_len, SliceLen(strided))
    IN [b \in DOMAIN buffer_ |->
           IF b < n THEN FMul(buffer_[b], strided[b]) ELSE buffer_[b]]

RECURSIVE hps_from(_, _, _, _)
\* for i in i..=count
hps_from(buffer_, copy, i, count) ==
    IF i > count THEN buffer_
    ELSE hps_from(hps_step(buffer_, copy, i), copy, i + 1, count)

\* AudioAnalyzer::apply_harmonic_product_spectrum(count, buffer)
apply_harmonic_product_spectrum(count, buffer_) ==
    hps_from(buffer_, buffer_, 2, count)

\* ------------------------------------------------------- strongest_freq
\* Frequencies at or below this many Hz are suppressed.
LowCut == 60

\* A scratch copy that adds the windowed samples to what the scratch buffer
\* held and does not clear the rest: what the copy must not be.
copy_to_zero_padded_buffer_accumulates(a) ==
    LET samples == Contents(a.buffer)
        zipped == Min(Min(Len(samples), SliceLen(a.window)),
                      SliceLen(a.padded_buffer))
    IN [a EXCEPT !.padded_buffer =
           [i \in DOMAIN a.padded_buffer |->
               IF i < zipped
               THEN LET product == FMul(SampleValue(samples[i + 1]), a.window[i])
                    IN IF a.padded_buffer[i] = NaN \/ product = NaN THEN NaN
                       ELSE a.padded_buffer[i] + product
               ELSE a.padded_buffer[i]]]

\* A scratch copy that does not clear the positions from len on.
copy_to_zero_padded_buffer_keeps_tail(a) ==
    LET samples == Contents(a.buffer)
        zipped == Min(Min(Len(samples), SliceLen(a.window)),
                      SliceLen(a.padded_buffer))
    IN [a EXCEPT !.padded_buffer =
           [i \in DOMAIN a.padded_buffer |->
               IF i < zipped
               THEN FMul(SampleValue(samples[i + 1]), a.window[i])
               ELSE a.padded_buffer[i]]]

\* copy_to_zero_padded_buffer: sample * window_value for as long as the ring,
\* the window and the scratch buffer all last, then zeros from len on.
copy_to_zero_padded_buffer(a) ==
    LET samples == Contents(a.buffer)
        length == len(a.buffer)
        zipped == Min(Min(Len(samples), SliceLen(a.window)),
                      SliceLen(a.padded_buffer))
    IN [a EXCEPT !.padded_buffer =
           [i \in DOMAIN a.padded_buffer |->
               IF i >= length THEN 0
               ELSE IF i < zipped
               THEN FMul(SampleValue(samples[i + 1]), a.window[i])
               ELSE a.padded_buffer[i]]]

\* fft.transform(false) followed by abs() on every bin.  The transform is
\* arithmetic on Complex<f32> and is not computed.  What is kept of it: a
\* NaN among the inputs reaches every bin; inputs that are all 0.0 give bins
\* that are all 0.0 (every product and sum of the butterflies is 0.0, and
\* abs gives +0.0); one input is its own transform; any other input gives
\* the magnitudes sig on the lower half, mirrored on the upper half (which
\* strongest_freq discards).
transform_abs(d, sig) ==
    LET n == SliceLen(d)
        half == n \div 2
    IN IF \E i \in DOMAIN d : d[i] = NaN THEN [k \in DOMAIN d |-> NaN]
       ELSE IF \A i \in DOMAIN d : d[i] = 0 THEN [k \in DOMAIN d |-> 0]
       ELSE IF half = 0 THEN d
       ELSE [k \in DOMAIN d |-> IF k < half THEN sig[k]
                                ELSE sig[(n - k) % half]]

\* The first index of freq_table whose frequency x * sample_rate / n is
\* above 60.0, as the for loop finds it.
first_above(table, sample_rate, n) ==
    LET above == {i \in DOMAIN table : table[i] * sample_rate > LowCut * n}
    IN IF above = {} THEN None
       ELSE Some(CHOOSE i \in above : \A j \in above : i <= j)

\* half_data[..i].iter_mut().for_each(|f| *f = 0.0)
zero_prefix(d, i) == [b \in DOMAIN d |-> IF b < i THEN 0 ELSE d[b]]

\* iter().enumerate().max_by(|(_, a), (_, b)| a.total_cmp(b)).map(|(i, _)| i):
\* Iterator::max_by returns the last of the maximal elements, None when
\* there is no element.
max_by(d, nan_positive) ==
    IF DOMAIN d = {} THEN None
    ELSE Some(CHOOSE i \in DOMAIN d : \A j \in DOMAIN d :
                 /\ total_le(d[j], d[i], nan_positive)
                 /\ j > i => ~total_le(d[i], d[j], nan_positive))

\* (x * sample_rate / n * 100.0).round() / 100.0 in hundredths of a Hz;
\* round goes away from zero on a tie, x is not negative.
loudest_freq(x, sample_rate, n) ==
    (2 * 100 * x * sample_rate + n) \div (2 * n)

\* dest.copy_from_slice(src) that leaves dest as it was.
copy_from_slice_keeps_dest(dest, src) ==
    [data |-> dest, panic |-> SliceLen(dest) # SliceLen(src)]

\* dest.copy_from_slice(src): panics when the lengths differ.
copy_from_slice(dest, src) ==
    [data |-> IF SliceLen(dest) = SliceLen(src) THEN src ELSE dest,
     panic |-> SliceLen(dest) # SliceLen(src)]

\* analyzer.strongest_freq() where the transform of a window that is not
\* silent has the magnitudes sig.  Gives the analyzer after the call, the
\* value returned (in hundredths of a Hz), whether the call panicked, and
\* the intermediate slices: magnitudes (result), table (freq_table), hps
\* (half_data after the harmonic product), half_data (after suppression),
\* cut (the index the loop broke at) and index (loudest_tone_index).
strongest_freq(a, sig, nan_positive) ==
    LET a1 == copy_to_zero_padded_buffer(a)
        f == FFT_new(a1.padded_buffer)
        result == transform_abs(f.data, sig)
        n == SliceLen(result)
        table == freq_table(n)
        half_len == n \div 2
        half0 == [b \in 0 .. half_len - 1 |-> result[b]]
        hps == apply_harmonic_product_spectrum(a.hps_count, half0)
        cut == first_above(table, a.sample_rate, n)
        cut_out == cut # None /\ cut[2] > half_len
        half_data == IF cut = None \/ cut_out THEN hps
                     ELSE zero_prefix(hps, cut[2])
        index == max_by(half_data, nan_positive)
        cached == copy_from_slice(a.result_buffer, half_data)
        panic == \/ f.panic
                 \/ transform_panics(f.data)
                 \/ cut_out
                 \/ index = None
                 \/ index[2] \notin DOMAIN table
                 \/ cached.panic
    IN [analyzer |-> IF panic THEN a1
                     ELSE [a1 EXCEPT !.result_buffer = cached.data],
        panic |-> panic,
        ret |-> IF panic THEN None
                ELSE Some(loudest_freq(table[index[2]], a.sample_rate, n)),
        magnitudes |-> half0,
        table |-> table,
        hps |-> hps,
        half_data |-> half_data,
        cut |-> cut,
        index |-> index]

\* analyzer.get_result_buffer()
get_result_buffer(a) == a.result_buffer

\* ------------------------------------------------------ the buffer's clients
\* The buffer under test, just constructed with capacity c.
InitBuffer(c) ==
    /\ buffer = new(c)
    /\ capacity_given = c
    /\ op = <<"new", c>>
    /\ pre = new(c)
    /\ ret = None
    /\ panicked = FALSE
    /\ pushed = <<>>
    /\ only_push = TRUE
    /\ it = NoIter
    /\ yielded = NoYield

\* AppBuilder::build: the staging buffer and the analyzer.
InitApp ==
    /\ sample_buffer = new(StagingCap)
    /\ audio_analyzer = AudioAnalyzer_new(48000, AnalyzerBufferSize, 3, 3, 440, "Hann")
    /\ delivered = 0
    /\ callback = NoCallback

InitSlice(d) ==
    /\ data = d
    /\ input = d
    /\ passes = 0

NoCall == [name |-> "none"]

\* No function was called on its own and no analyzer is under test.
\* No thread of the application runs.
NotRunning == <<>>

InitDsp ==
    /\ call = NoCall
    /\ tuner = <<>>
    /\ signal = <<>>
    /\ analysis = <<>>
    /\ nan_sign = "unknown"

Init ==
    /\ \/ client = "library" /\ \E c \in 0 .. MaxCap : InitBuffer(c)
       \/ client = "app" /\ InitBuffer(0)
    /\ InitApp
    /\ InitSlice(EmptySlice)
    /\ InitDsp
    /\ run = NotRunning

\* A &mut self method can be called: no panic so far and no live borrow.
Idle == client = "library" /\ ~panicked /\ it.kind = "none"

PushBack ==
    /\ Idle
    /\ only_push => Len(pushed) < MaxPush
    /\ \E item \in Values :
        LET r == push_back(buffer, item)
        IN /\ buffer' = r.buf
           /\ ret' \in ReadOption(r.ret)
           /\ panicked' = r.panic
           /\ op' = <<"push_back", item>>
           /\ pushed' = IF only_push THEN Append(pushed, item) ELSE pushed
    /\ pre' = buffer
    /\ UNCHANGED <<only_push, it, yielded, capacity_given, client, app_vars, fft_vars, dsp_vars, run>>

PopFront ==
    /\ Idle
    /\ LET r == pop_front(buffer)
       IN /\ buffer' = r.buf
          /\ ret' \in ReadOption(r.ret)
          /\ panicked' = r.panic
    /\ op' = <<"pop_front">>
    /\ pre' = buffer
    /\ only_push' = FALSE
    /\ pushed' = <<>>
    /\ UNCHANGED <<it, yielded, capacity_given, client, app_vars, fft_vars, dsp_vars, run>>

PopBack ==
    /\ Idle
    /\ LET r == pop_back(buffer)
       IN /\ buffer' = r.buf
          /\ ret' \in ReadOption(r.ret)
          /\ panicked' = r.panic
    /\ op' = <<"pop_back">>
    /\ pre' = buffer
    /\ only_push' = FALSE
    /\ pushed' = <<>>
    /\ UNCHANGED <<it, yielded, capacity_given, client, app_vars, fft_vars, dsp_vars, run>>

MakeContiguous ==
    /\ Idle
    /\ LET r == make_contiguous(buffer)
       IN /\ buffer' = r.buf
          /\ ret' \in ReadSlice(r.ret)
          /\ panicked' = r.panic
    /\ op' = <<"make_contiguous">>
    /\ pre' = buffer
    /\ only_push' = FALSE
    /\ pushed' = <<>>
    /\ UNCHANGED <<it, yielded, capacity_given, client, app_vars, fft_vars, dsp_vars, run>>

\* drain(lo..hi), the Drain collected and dropped; the ranges are those within
\* the buffer and those that pass its length by one.
DrainRange ==
    /\ Idle
    /\ \E lo \in 0 .. len(buffer) + 1, hi \in 0 .. len(buffer) + 1 :
        LET r == drain(buffer, <<lo, hi>>)
        IN /\ buffer' = r.buf
           /\ ret' \in ReadSlice(r.ret)
           /\ panicked' = r.panic
           /\ op' = <<"drain", lo, hi>>
    /\ pre' = buffer
    /\ only_push' = FALSE
    /\ pushed' = <<>>
    /\ UNCHANGED <<it, yielded, capacity_given, client, app_vars, fft_vars, dsp_vars, run>>

\* buffer.iter()
IterNew ==
    /\ Idle
    /\ it' = Iter_new(buffer)
    /\ yielded' = [orig |-> Contents(buffer), front |-> <<>>, back |-> <<>>]
    /\ op' = <<"iter">>
    /\ pre' = buffer
    /\ ret' = None
    /\ only_push' = FALSE
    /\ pushed' = <<>>
    /\ UNCHANGED <<buffer, panicked, capacity_given, client, app_vars, fft_vars, dsp_vars, run>>

\* buffer.iter_mut()
IterMutNew ==
    /\ Idle
    /\ it' = IterMut_new(buffer)
    /\ yielded' = [orig |-> Contents(buffer), front |-> <<>>, back |-> <<>>]
    /\ op' = <<"iter_mut">>
    /\ pre' = buffer
    /\ ret' = None
    /\ only_push' = FALSE
    /\ pushed' = <<>>
    /\ UNCHANGED <<buffer, panicked, capacity_given, client, app_vars, fft_vars, dsp_vars, run>>

\* buffer.into_iter(): the buffer moves into the iterator.
IntoIterNew ==
    /\ Idle
    /\ it' = IntoIter_new(buffer)
    /\ yielded' = [orig |-> Contents(buffer), front |-> <<>>, back |-> <<>>]
    /\ op' = <<"into_iter">>
    /\ pre' = buffer
    /\ ret' = None
    /\ only_push' = FALSE
    /\ pushed' = <<>>
    /\ UNCHANGED <<buffer, panicked, capacity_given, client, app_vars, fft_vars, dsp_vars, run>>

\* What a call of next or next_back adds to the record of yielded items.
Yield(y, r, side) ==
    IF r = None THEN y
    ELSE IF side = "front" THEN [y EXCEPT !.front = Append(y.front, r[2])]
    ELSE [y EXCEPT !.back = Append(y.back, r[2])]

IterNext ==
    /\ client = "library"
    /\ ~panicked
    /\ it.kind \in {"iter", "iter_mut"}
    /\ LET r == Iter_next(it)
       IN /\ it' = r.it
          /\ \E v \in ReadOption(r.ret) :
                ret' = v /\ yielded' = Yield(yielded, v, "front")
    /\ op' = <<"next">>
    /\ pre' = buffer
    /\ UNCHANGED <<buffer, panicked, pushed, only_push, capacity_given, client, app_vars, fft_vars, dsp_vars, run>>

IterNextBack ==
    /\ client = "library"
    /\ ~panicked
    /\ it.kind \in {"iter", "iter_mut"}
    /\ LET r == Iter_next_back(it)
       IN /\ it' = r.it
          /\ \E v \in ReadOption(r.ret) :
                ret' = v /\ yielded' = Yield(yielded, v, "back")
    /\ op' = <<"next_back">>
    /\ pre' = buffer
    /\ UNCHANGED <<buffer, panicked, pushed, only_push, capacity_given, client, app_vars, fft_vars, dsp_vars, run>>

IntoIterNext ==
    /\ client = "library"
    /\ ~panicked
    /\ it.kind = "into_iter"
    /\ LET r == IntoIter_next(buffer)
       IN /\ buffer' = r.buf
          /\ panicked' = r.panic
          /\ \E v \in ReadOption(r.ret) :
                ret' = v /\ yielded' = Yield(yielded, v, "front")
    /\ op' = <<"next">>
    /\ pre' = buffer
    /\ UNCHANGED <<it, pushed, only_push, capacity_given, client, app_vars, fft_vars, dsp_vars, run>>

IntoIterNextBack ==
    /\ client = "library"
    /\ ~panicked
    /\ it.kind = "into_iter"
    /\ LET r == IntoIter_next_back(buffer)
       IN /\ buffer' = r.buf
          /\ panicked' = r.panic
          /\ \E v \in ReadOption(r.ret) :
                ret' = v /\ yielded' = Yield(yielded, v, "back")
    /\ op' = <<"next_back">>
    /\ pre' = buffer
    /\ UNCHANGED <<it, pushed, only_push, capacity_given, client, app_vars, fft_vars, dsp_vars, run>>

\* The borrow of iter() or iter_mut() ends.
IterDrop ==
    /\ client = "library"
    /\ ~panicked
    /\ it.kind \in {"iter", "iter_mut"}
    /\ it' = NoIter
    /\ yielded' = NoYield
    /\ op' = <<"drop">>
    /\ pre' = buffer
    /\ ret' = None
    /\ UNCHANGED <<buffer, panicked, pushed, only_push, capacity_given, client, app_vars, fft_vars, dsp_vars, run>>

\* analyzer.add_samples(block) on an analyzer that owns the buffer under test.
\* AudioAnalyzer::buffer is private: nothing but push_back ever changes it.
AddSamples ==
    /\ Idle
    /\ only_push
    /\ \E n \in 1 .. MaxBlock :
        /\ Len(pushed) + n <= MaxPush
        /\ \E block \in [1 .. n -> Values] :
            /\ buffer' = add_samples([buffer |-> buffer], block).buffer
            /\ op' = <<"add_samples", block>>
            /\ pushed' = pushed \o block
    /\ ret' = None
    /\ pre' = buffer
    /\ UNCHANGED <<panicked, only_push, it, yielded, capacity_given, client, app_vars, fft_vars, dsp_vars, run>>

\* The device calls write_callback with the next n samples.
WriteCallback ==
    /\ client = "app"
    /\ ~callback.panic
    /\ \E n \in 1 .. MaxBlock :
        /\ delivered + n <= MaxDelivered
        /\ LET in == [i \in 1 .. n |-> delivered + i]
               r == write_callback(in, sample_buffer, audio_analyzer)
           IN /\ sample_buffer' = r.buffer
              /\ audio_analyzer' = r.analyzer
              /\ callback' = [input |-> in, staged |-> r.staged,
                              drains |-> r.drains, drained |-> r.drained,
                              evicted |-> r.evicted, panic |-> r.panic]
        /\ delivered' = delivered + n
    /\ UNCHANGED <<client, buffer_vars, fft_vars, dsp_vars, run>>

Next ==
    \/ PushBack
    \/ AddSamples
    \/ WriteCallback
    \/ PopFront
    \/ PopBack
    \/ MakeContiguous
    \/ DrainRange
    \/ IterNew
    \/ IterMutNew
    \/ IntoIterNew
    \/ IterNext
    \/ IterNextBack
    \/ IntoIterNext
    \/ IntoIterNextBack
    \/ IterDrop

Spec == Init /\ [][Next]_vars

\* ------------------------------------------ App::run and the audio thread
\* Two threads: the main thread runs the loop of App::run, the audio thread
\* runs write_callback whenever the open stream has a block of samples.
\* Both take the two Mutexes, sample_buffer and audio_analyzer, one at a
\* time with lock(); a lock() on a Mutex that is held waits.

\* &devices[device_number as usize] does not panic.
index_in_bounds(length, device_number) == 0 <= device_number /\ device_number < length

\* config.with_max_sample_rate().sample_rate.0 of a device's float config.
max_sample_rate(device) == IF device % 2 = 0 THEN 48000 ELSE 44100

\* A search that takes a device's first config whatever its sample format:
\* what the search of swap_device must not be.
find_any_config(floats, device) == Some(max_sample_rate(device))

\* supported_input_configs().find(|config| config.sample_format().is_float())
find_float_config(floats, device) == IF floats[device] THEN Some(max_sample_rate(device)) ELSE None

\* A lock() that does not wait for the holder: what Mutex::lock must not be.
can_lock_held(mutex) == TRUE

\* Mutex::lock returns once the Mutex is free.
can_lock(mutex) == mutex = "free"

\* The magnitudes the transform gives for the windows the run loop
\* analyzes: one tone.
Tone == [b \in DOMAIN AudioAnalyzer_new(48000, AnalyzerBufferSize, 3, 3, 440, "Hann").result_buffer |-> IF b = 2 THEN 1 ELSE 0]

InitRun ==
    /\ client = "run"
    /\ InitBuffer(0)
    /\ InitApp
    /\ InitSlice(EmptySlice)
    /\ call = NoCall
    /\ tuner = <<>>
    /\ analysis = <<>>
    /\ signal = Tone
    /\ nan_sign = "unknown"
    /\ \E devices \in 0 .. MaxDevice + 1 : \E floats \in [0 .. devices - 1 -> BOOLEAN] :
        run = [main |-> "loop",      \* where the main thread is
               devices |-> devices,  \* devices.len(): the input devices the
                                     \* host lists at every refresh
               out_of_bounds |-> FALSE,  \* devices[device_number] panicked
               audio |-> "idle",     \* where the audio thread is
               input |-> <<>>,       \* the block write_callback was given
               sample_buffer_lock |-> "free",
               audio_analyzer_lock |-> "free",
               current_stream |-> None,  \* AppContext::current_stream
               device_number |-> 0,      \* AppContext::device_number
               built |-> None,       \* the stream swap_device has built and
                                     \* not yet stored
               playing |-> FALSE,    \* the stream there is delivers blocks
               floats |-> floats,    \* the devices with a float config
               config |-> 0,         \* the sample rate swap_device found
               before |-> <<>>,      \* the analyzer when swap_device began
               old |-> 0,            \* samples delivered by closed streams
               failed |-> FALSE]     \* the last swap_device returned Err

Running == client = "run" /\ run.main # "panic"

\* Top of the loop with a stream open: swap_device is not called.
RunStreamOpen ==
    /\ Running
    /\ run.main = "loop"
    /\ run.current_stream # None
    /\ run' = [run EXCEPT !.main = "analyzer"]
    /\ UNCHANGED <<client, buffer_vars, app_vars, fft_vars, dsp_vars>>

\* Top of the loop without a stream: swap_device indexes the device list
\* with a number that is not in it and panics.
SwapDeviceIndex ==
    /\ Running
    /\ run.main = "loop"
    /\ run.current_stream = None
    /\ ~index_in_bounds(run.devices, run.device_number)
    /\ run' = [run EXCEPT !.main = "panic", !.out_of_bounds = TRUE]
    /\ UNCHANGED <<client, buffer_vars, app_vars, fft_vars, dsp_vars>>

\* Top of the loop without a stream: swap_device on a device that has no
\* float config returns Err before it touches anything.
SwapDeviceErr ==
    /\ Running
    /\ run.main = "loop"
    /\ run.current_stream = None
    /\ index_in_bounds(run.devices, run.device_number)
    /\ find_float_config(run.floats, run.device_number) = None
    /\ run' = [run EXCEPT !.main = "swap_err", !.failed = TRUE,
                          !.before = audio_analyzer]
    /\ UNCHANGED <<client, buffer_vars, app_vars, fft_vars, dsp_vars>>

\* Top of the loop without a stream: swap_device finds a float config and
\* builds the input stream.  Whether a stream delivers blocks before play()
\* depends on the platform.
SwapDeviceBuild ==
    /\ Running
    /\ run.main = "loop"
    /\ run.current_stream = None
    /\ index_in_bounds(run.devices, run.device_number)
    /\ find_float_config(run.floats, run.device_number) # None
    /\ \E autostart \in BOOLEAN :
        run' = [run EXCEPT !.main = "swap_analyzer",
                           !.built = Some(run.device_number),
                           !.playing = autostart,
                           !.config = find_float_config(run.floats, run.device_number)[2],
                           !.before = audio_analyzer]
    /\ UNCHANGED <<client, buffer_vars, app_vars, fft_vars, dsp_vars>>

\* swap_device: audio_analyzer.lock()
SwapLockAnalyzer ==
    /\ Running
    /\ run.main = "swap_analyzer"
    /\ can_lock(run.audio_analyzer_lock)
    /\ run' = [run EXCEPT !.main = "swap_buffer", !.audio_analyzer_lock = "main"]
    /\ UNCHANGED <<client, buffer_vars, app_vars, fft_vars, dsp_vars>>

\* swap_device: sample_buffer.lock()
SwapLockBuffer ==
    /\ Running
    /\ run.main = "swap_buffer"
    /\ can_lock(run.sample_buffer_lock)
    /\ run' = [run EXCEPT !.main = "swap_replace", !.sample_buffer_lock = "main"]
    /\ UNCHANGED <<client, buffer_vars, app_vars, fft_vars, dsp_vars>>

\* swap_device with both guards: the analyzer is replaced, the stream is
\* played and stored, the guards are dropped on return.
SwapReplace ==
    /\ Running
    /\ run.main = "swap_replace"
    /\ audio_analyzer' = AudioAnalyzer_new(run.config, AnalyzerBufferSize, 3, 3, 440, "Hann")
    /\ run' = [run EXCEPT !.main = "swap_ok", !.failed = FALSE,
                          !.playing = TRUE,
                          !.current_stream = run.built,
                          !.built = None,
                          !.sample_buffer_lock = "free",
                          !.audio_analyzer_lock = "free"]
    /\ UNCHANGED <<client, buffer_vars, sample_buffer, delivered, callback, fft_vars, dsp_vars>>

\* App::run: audio_analyzer.lock()
RunLockAnalyzer ==
    /\ Running
    /\ run.main \in {"swap_err", "swap_ok", "analyzer"}
    /\ can_lock(run.audio_analyzer_lock)
    /\ run' = [run EXCEPT !.main = "buffer", !.audio_analyzer_lock = "main",
                          !.before = <<>>]
    /\ UNCHANGED <<client, buffer_vars, app_vars, fft_vars, dsp_vars>>

\* App::run: sample_buffer.lock()
RunLockBuffer ==
    /\ Running
    /\ run.main = "buffer"
    /\ can_lock(run.sample_buffer_lock)
    /\ run' = [run EXCEPT !.main = "snapshot", !.sample_buffer_lock = "main"]
    /\ UNCHANGED <<client, buffer_vars, app_vars, fft_vars, dsp_vars>>

\* App::run with both guards: the staged samples are made contiguous and
\* copied, strongest_freq is called, both guards are dropped.
RunSnapshot ==
    /\ Running
    /\ run.main = "snapshot"
    /\ sample_buffer' = make_contiguous(sample_buffer).buf
    /\ \E r \in {strongest_freq(audio_analyzer, signal, TRUE)} :
        /\ audio_analyzer' = r.analyzer
        /\ run' = [run EXCEPT !.main = IF r.panic THEN "panic" ELSE "devices",
                              !.sample_buffer_lock = "free",
                              !.audio_analyzer_lock = "free"]
    /\ UNCHANGED <<client, buffer_vars, delivered, callback, fft_vars, dsp_vars>>

\* draw_device_list returns false: the selection is the one it was.
RunKeepDevice ==
    /\ Running
    /\ run.main = "devices"
    /\ run' = [run EXCEPT !.main = "loop"]
    /\ UNCHANGED <<client, buffer_vars, app_vars, fft_vars, dsp_vars>>

\* draw_device_list returns true: the user selected another device.  Then
\* context.current_stream.unwrap(), a panic when there is no stream.
RunSelectDevice ==
    /\ Running
    /\ run.main = "devices"
    /\ \E device \in (0 .. run.devices - 1) \ {run.device_number} :
        run' = [run EXCEPT !.device_number = device,
                           !.main = IF run.current_stream = None
                                    THEN "panic" ELSE "pause"]
    /\ UNCHANGED <<client, buffer_vars, app_vars, fft_vars, dsp_vars>>

\* The stream taken out of current_stream is paused and dropped (the drop
\* returns when no callback of the stream runs); current_stream = None.
RunPauseStream ==
    /\ Running
    /\ run.main = "pause"
    /\ run.audio = "idle"
    /\ run' = [run EXCEPT !.main = "loop", !.current_stream = None,
                          !.playing = FALSE, !.old = delivered]
    /\ UNCHANGED <<client, buffer_vars, app_vars, fft_vars, dsp_vars>>

\* The stream calls write_callback with the next n samples.
AudioCallback ==
    /\ Running
    /\ run.playing
    /\ run.audio = "idle"
    /\ \E n \in 1 .. MaxBlock :
        /\ delivered + n <= MaxDelivered
        /\ run' = [run EXCEPT !.audio = "buffer",
                              !.input = [i \in 1 .. n |-> delivered + i]]
        /\ delivered' = delivered + n
    /\ UNCHANGED <<client, buffer_vars, sample_buffer, audio_analyzer, callback, fft_vars, dsp_vars>>

\* write_callback: buffer.lock(), the first element of the tuple
AudioLockBuffer ==
    /\ Running
    /\ run.audio = "buffer"
    /\ can_lock(run.sample_buffer_lock)
    /\ run' = [run EXCEPT !.audio = "analyzer", !.sample_buffer_lock = "audio"]
    /\ UNCHANGED <<client, buffer_vars, app_vars, fft_vars, dsp_vars>>

\* write_callback: analyzer.lock(), the second element of the tuple
AudioLockAnalyzer ==
    /\ Running
    /\ run.audio = "analyzer"
    /\ can_lock(run.audio_analyzer_lock)
    /\ run' = [run EXCEPT !.audio = "write", !.audio_analyzer_lock = "audio"]
    /\ UNCHANGED <<client, buffer_vars, app_vars, fft_vars, dsp_vars>>

\* write_callback with both guards: push, drain, add_samples; the guards
\* are dropped on return.
AudioWrite ==
    /\ Running
    /\ run.audio = "write"
    /\ \E r \in {write_callback(run.input, sample_buffer, audio_analyzer)} :
        /\ sample_buffer' = r.buffer
        /\ audio_analyzer' = r.analyzer
        /\ callback' = [input |-> run.input, staged |-> r.staged,
                        drains |-> r.drains, drained |-> r.drained,
                        evicted |-> r.evicted, panic |-> r.panic]
    /\ run' = [run EXCEPT !.audio = "idle", !.input = <<>>,
                          !.sample_buffer_lock = "free",
                          !.audio_analyzer_lock = "free"]
    /\ UNCHANGED <<client, buffer_vars, delivered, fft_vars, dsp_vars>>

NextRun ==
    \/ RunStreamOpen
    \/ SwapDeviceIndex
    \/ SwapDeviceErr
    \/ SwapDeviceBuild
    \/ SwapLockAnalyzer
    \/ SwapLockBuffer
    \/ SwapReplace
    \/ RunLockAnalyzer
    \/ RunLockBuffer
    \/ RunSnapshot
    \/ RunKeepDevice
    \/ RunSelectDevice
    \/ RunPauseStream
    \/ AudioCallback
    \/ AudioLockBuffer
    \/ AudioLockAnalyzer
    \/ AudioWrite

SpecRun == InitRun /\ [][NextRun]_vars

\* ------------------------------------------- the note shown by the render loop
\* if note_number_counter >= 7
StableFrames == 7

\* The nearest note numbers a frame can detect (number.round(), never NaN:
\* the frequency detected is a finite entry of the table, and not negative).
DetectedNotes == 0 .. MaxNote

\* The hysteresis of one frame of App::run on the detected nearest_note_number.
show_note(shown, nearest_note_number) ==
    IF nearest_note_number # shown.nearest_note_num_buffer
    THEN IF shown.note_number_counter + 1 >= StableFrames
         THEN [nearest_note_num_buffer |-> nearest_note_number,
               note_number_counter |-> 0]
         ELSE [shown EXCEPT !.note_number_counter = shown.note_number_counter + 1]
    ELSE shown

\* Before the first frame: nearest_note_num_buffer = 0.0, the counter 0.
\* nearest_note_number is the note detected by the last frame, streak the
\* number of frames in a row, up to the last one, that detected it (0 before
\* the first frame, counted up to StableFrames), changed whether the last
\* frame changed the note shown.
InitFrames ==
    /\ client = "frame"
    /\ InitBuffer(0)
    /\ InitApp
    /\ InitSlice(EmptySlice)
    /\ InitDsp
    /\ run = [main |-> "frame",
              shown |-> [nearest_note_num_buffer |-> 0, note_number_counter |-> 0],
              nearest_note_number |-> 0,
              streak |-> 0,
              changed |-> FALSE]

\* One iteration of the render loop, from the note it detects on.
Frame ==
    /\ client = "frame"
    /\ \E nearest_note_number \in DetectedNotes :
        \E after \in {show_note(run.shown, nearest_note_number)} :
          run' = [run EXCEPT
                    !.shown = after,
                    !.nearest_note_number = nearest_note_number,
                    !.streak = IF run.streak > 0
                                  /\ nearest_note_number = run.nearest_note_number
                               THEN Min(run.streak + 1, StableFrames)
                               ELSE 1,
                    !.changed = after.nearest_note_num_buffer
                                # run.shown.nearest_note_num_buffer]
    /\ UNCHANGED <<client, buffer_vars, app_vars, fft_vars, dsp_vars>>

NextFrames == Frame

SpecFrames == InitFrames /\ [][NextFrames]_vars

\* ------------------------------------------------------- FFT::rearrange alone
\* The slices given to rearrange: 0, 1, ..., n-1 rotated by r, of every length
\* up to 2^MaxLog2 (the powers of two and the lengths between them).
Rotated(n, r) == [i \in 0 .. n - 1 |-> (i + r) % n]

InitFFT ==
    /\ client = "fft"
    /\ InitBuffer(0)
    /\ InitApp
    /\ \E n \in 0 .. Pow2(MaxLog2) :
          \E r \in 0 .. (IF n = 0 THEN 0 ELSE n - 1) : InitSlice(Rotated(n, r))
    /\ InitDsp
    /\ run = NotRunning

\* FFT::rearrange(&mut data)
Rearrange ==
    /\ client = "fft"
    /\ passes < 2
    /\ data' = rearrange(data)
    /\ passes' = passes + 1
    /\ UNCHANGED <<input, client, buffer_vars, app_vars, dsp_vars, run>>

NextFFT == Rearrange

SpecFFT == InitFFT /\ [][NextFFT]_vars

\* ------------------------------------------------- functions on their own
\* The slice 1, 2, ..., n.
Ramp(n) == [i \in 0 .. n - 1 |-> i + 1]

InitCalls ==
    /\ client = "call"
    /\ InitBuffer(0)
    /\ InitApp
    /\ InitSlice(EmptySlice)
    /\ InitDsp
    /\ run = NotRunning

\* One function is called, once, on inputs of the caller's choice.
CanCall == client = "call" /\ call = NoCall

\* lower_power_of_two(n), built with or without overflow checks.
CallLowerPowerOfTwo ==
    /\ CanCall
    /\ \E n \in 0 .. UsizeMax, overflow_checks \in BOOLEAN :
        call' = [name |-> "lower_power_of_two", n |-> n,
                 panic |-> overflow_checks /\ lower_power_of_two_overflows(n),
                 ret |-> lower_power_of_two(n)]
    /\ UNCHANGED <<client, buffer_vars, app_vars, fft_vars, tuner, signal, analysis, nan_sign, run>>

\* FFT::new(&data, direction) on a slice of any length.
CallFFTNew ==
    /\ CanCall
    /\ \E n \in 0 .. Pow2(MaxLog2), overflow_checks \in BOOLEAN :
        LET r == FFT_new(Ramp(n))
        IN call' = [name |-> "FFT::new", input |-> Ramp(n),
                    panic |-> \/ r.panic
                              \/ /\ overflow_checks
                                 /\ ~is_power_of_two(n)
                                 /\ lower_power_of_two_overflows(n),
                    data |-> r.data]
    /\ UNCHANGED <<client, buffer_vars, app_vars, fft_vars, tuner, signal, analysis, nan_sign, run>>

\* FFT::fft(&mut data, direction, scale) on a slice of any length.
CallFFT ==
    /\ CanCall
    /\ \E n \in 0 .. Pow2(MaxLog2) :
        LET r == fft(Ramp(n))
        IN call' = [name |-> "FFT::fft", input |-> Ramp(n),
                    panic |-> r.panic, ret |-> r.ret, data |-> r.data]
    /\ UNCHANGED <<client, buffer_vars, app_vars, fft_vars, tuner, signal, analysis, nan_sign, run>>

\* The lengths whose butterflies are computed.
RoundTripLengths == {2, 4}

\* The samples of a round trip: small whole numbers and 2^24, the first
\* f32 whose neighbour above is 2 away; imaginary parts 0.0 or 1.0.
RoundTripSamples ==
    {<<re * Quarter, im * Quarter>> :
        re \in (-MaxAmp .. MaxAmp) \cup {Pow2(Significand)}, im \in {0, 1}}

\* FFT::fft(data, Forward, false), then FFT::fft(data, Inverse, true).
CallRoundTrip ==
    /\ CanCall
    /\ \E n \in RoundTripLengths : \E d \in [0 .. n - 1 -> RoundTripSamples] :
        LET spectrum == fft_data(d, "Forward", FALSE)
        IN call' = [name |-> "round_trip", input |-> d, panic |-> FALSE,
                    spectrum |-> spectrum,
                    ret |-> fft_data(spectrum, "Inverse", TRUE)]
    /\ UNCHANGED <<client, buffer_vars, app_vars, fft_vars, tuner, signal, analysis, nan_sign, run>>

\* FFT::freq_table(n, scalar), built with or without overflow checks.
CallFreqTable ==
    /\ CanCall
    /\ \E n \in 0 .. Pow2(MaxLog2), overflow_checks \in BOOLEAN :
        call' = [name |-> "freq_table", n |-> n,
                 panic |-> overflow_checks /\ n = 0,
                 ret |-> freq_table(n)]
    /\ UNCHANGED <<client, buffer_vars, app_vars, fft_vars, tuner, signal, analysis, nan_sign, run>>

\* AudioAnalyzer::apply_harmonic_product_spectrum(count, &mut buffer);
\* after[h] is the buffer once the harmonics 2..h are done.
CallHps ==
    /\ CanCall
    /\ \E n \in 0 .. MaxSpectrum, count \in 0 .. MaxHps :
        \E b \in [0 .. n - 1 -> 1 .. MaxBin] :
            call' = [name |-> "apply_harmonic_product_spectrum",
                     count |-> count, buffer |-> b,
                     after |-> [h \in 1 .. count |-> hps_from(b, b, 2, h)],
                     ret |-> apply_harmonic_product_spectrum(count, b)]
    /\ UNCHANGED <<client, buffer_vars, app_vars, fft_vars, tuner, signal, analysis, nan_sign, run>>

\* Note::from_number(number) and to_str() on what it gave.
CallFromNumber ==
    /\ CanCall
    /\ \E number \in 0 .. MaxNoteNumber :
        LET r == from_number(number)
        IN call' = [name |-> "from_number", number |-> number,
                    panic |-> r.panic, ret |-> r.ret, str |-> to_str(r.ret)]
    /\ UNCHANGED <<client, buffer_vars, app_vars, fft_vars, tuner, signal, analysis, nan_sign, run>>

\* add_mod(x, y, m) and sub_mod(x, y, m) on arguments that meet their
\* debug assertions (m > 0, x <= m, y <= m).
CallAddMod ==
    /\ CanCall
    /\ \E m \in 1 .. UsizeMax : \E x \in 0 .. m, y \in 0 .. m :
        call' = [name |-> "add_mod", x |-> x, y |-> y, m |-> m,
                 panic |-> add_mod_overflows(x, y, m) \/ sub_mod_overflows(x, y, m),
                 ret |-> add_mod(x, y, m),
                 sub |-> sub_mod(x, y, m)]
    /\ UNCHANGED <<client, buffer_vars, app_vars, fft_vars, tuner, signal, analysis, nan_sign, run>>

\* AudioAnalyzer::new(48000, buffer_size, 3, zero_padding_factor, 440, Hann)
CallAnalyzerNew ==
    /\ CanCall
    /\ \E buffer_size \in 1 .. MaxNewSize, zero_padding_factor \in 0 .. MaxNewPad,
          overflow_checks \in BOOLEAN :
        call' = [name |-> "AudioAnalyzer::new", buffer_size |-> buffer_size,
                 zero_padding_factor |-> zero_padding_factor,
                 panic |-> overflow_checks
                           /\ AudioAnalyzer_new_overflows(buffer_size,
                                                          zero_padding_factor),
                 ret |-> AudioAnalyzer_new(48000, buffer_size, 3,
                                           zero_padding_factor, 440, "Hann")]
    /\ UNCHANGED <<client, buffer_vars, app_vars, fft_vars, tuner, signal, analysis, nan_sign, run>>

NextCalls ==
    \/ CallAnalyzerNew
    \/ CallAddMod
    \/ CallRoundTrip
    \/ CallFromNumber
    \/ CallLowerPowerOfTwo
    \/ CallFFTNew
    \/ CallFFT
    \/ CallFreqTable
    \/ CallHps

SpecCalls == InitCalls /\ [][NextCalls]_vars

\* ------------------------------------------------ the analyzer on its own
\* Sample rates: with the longest transform of the model no bin, the last
\* bin only, or every bin but the first lies above 60 Hz.
SampleRates == {100, 200, 48000}

WindowTypes == {"Hamming", "Hann"}

\* The samples given to the analyzer under test: 0.0 and 1.0.
TunerSamples == {1, 2}

\* No window of the analyzer under test was transformed so far.
Unheard == <<>>

\* AudioAnalyzer::new with arguments of the caller's choice.
InitTuner ==
    /\ client = "tuner"
    /\ InitBuffer(0)
    /\ InitApp
    /\ InitSlice(EmptySlice)
    /\ call = NoCall
    /\ \E sample_rate \in SampleRates, buffer_size \in 1 .. MaxBufferSize,
          hps_count \in 0 .. MaxHps, zero_padding_factor \in 0 .. MaxZeroPad,
          window_type \in WindowTypes :
        /\ ~AudioAnalyzer_new_overflows(buffer_size, zero_padding_factor)
        /\ tuner = AudioAnalyzer_new(sample_rate, buffer_size, hps_count,
                                     zero_padding_factor, 440, window_type)
    /\ signal = Unheard
    /\ analysis = [name |-> "new", panic |-> FALSE]
    /\ nan_sign = "unknown"
    /\ run = NotRunning

\* The analyzer can be called: no call on it has panicked.
TunerIdle == client = "tuner" /\ ~analysis.panic

\* tuner.add_samples(&block), one or two samples.
TunerAddSamples ==
    /\ TunerIdle
    /\ \E n \in 1 .. 2 : \E block \in [1 .. n -> TunerSamples] :
        tuner' = add_samples(tuner, block)
    /\ analysis' = [name |-> "add_samples", panic |-> FALSE,
                    cached |-> tuner.result_buffer]
    /\ UNCHANGED <<client, buffer_vars, app_vars, fft_vars, call, signal, nan_sign, run>>

\* The windowed samples of a hold a NaN.
HasNaN(a) ==
    \E i \in DOMAIN a.padded_buffer :
        copy_to_zero_padded_buffer(a).padded_buffer[i] = NaN

\* The windowed samples of a are numbers, not all of them 0.0.
Audible(a) ==
    /\ ~HasNaN(a)
    /\ \E i \in DOMAIN a.padded_buffer :
          copy_to_zero_padded_buffer(a).padded_buffer[i] # 0

\* What the last call gave, when that call was strongest_freq and returned.
NoPrevious == <<>>
Previous == IF analysis.name = "strongest_freq" /\ ~analysis.panic THEN <<analysis.ret, tuner.result_buffer>> ELSE NoPrevious

\* tuner.strongest_freq().  The magnitudes the transform gives for a window
\* that is not silent are drawn when the first such window is transformed
\* and stay the same for the later ones; the sign of the NaN this build
\* produces is drawn at the first call that meets one.
StrongestFreq ==
    /\ TunerIdle
    /\ \E sig \in (IF signal = Unheard /\ Audible(tuner)
                   THEN [DOMAIN tuner.result_buffer -> 0 .. MaxMag]
                   ELSE {signal}),
          sign \in (IF nan_sign = "unknown" /\ HasNaN(tuner)
                    THEN {"positive", "negative"} ELSE {nan_sign}) :
        /\ signal' = sig
        /\ nan_sign' = sign
        /\ \E r \in {strongest_freq(tuner, sig, sign # "negative")} :
           /\ tuner' = r.analyzer
           /\ analysis' = [name |-> "strongest_freq", panic |-> r.panic,
                           ret |-> r.ret, magnitudes |-> r.magnitudes,
                           table |-> r.table, hps |-> r.hps,
                           half_data |-> r.half_data, cut |-> r.cut,
                           index |-> r.index,
                           nan_positive |-> sign # "negative",
                           ring |-> tuner.buffer,
                           previous |-> Previous]
    /\ UNCHANGED <<client, buffer_vars, app_vars, fft_vars, call, run>>

\* tuner.get_result_buffer()
GetResultBuffer ==
    /\ TunerIdle
    /\ analysis' = [name |-> "get_result_buffer", panic |-> FALSE,
                    ret |-> get_result_buffer(tuner),
                    cached |-> tuner.result_buffer]
    /\ UNCHANGED <<client, buffer_vars, app_vars, fft_vars, call, tuner, signal, nan_sign, run>>

NextTuner ==
    \/ TunerAddSamples
    \/ StrongestFreq
    \/ GetResultBuffer

SpecTuner == InitTuner /\ [][NextTuner]_vars

\* =================================================================== claims
\* The buffer under test is driven through the library's API.
Library == client = "library"

\* The buffer is wrapped: its logical sequence runs over the end of the storage.
Wrapped(b) == b.size > 0 /\ b.start + b.size > capacity(b)

\* C1: after n push_back calls (directly or through add_samples) on a new
\* buffer of capacity C >= 1, the buffer holds exactly the last min(n, C) items
\* pushed, in push order, the oldest at the front.
C1_OverwriteLaw ==
    (Library /\ only_push /\ capacity(buffer) >= 1) =>
        LET k == Min(Len(pushed), capacity(buffer))
        IN /\ len(buffer) = k
           /\ Contents(buffer) = LastN(pushed, k)

C1_Witness ==
    /\ Library /\ only_push
    /\ capacity(buffer) >= 2
    /\ Len(pushed) >= capacity(buffer) + 2
    /\ op[1] = "add_samples"
    /\ Contents(buffer) = LastN(pushed, capacity(buffer))

\* C2: with capacity >= 1, push_back on a buffer that is not full returns None
\* and adds the item at the back (len grows by one); on a full buffer it returns
\* the front element, len stays, the item becomes the back element and the other
\* elements keep their order.
C2_PushBack ==
    (Library /\ op[1] = "push_back" /\ capacity(pre) >= 1) =>
        IF len(pre) < capacity(pre)
        THEN /\ ret = None
             /\ len(buffer) = len(pre) + 1
             /\ Contents(buffer) = Append(Contents(pre), op[2])
        ELSE /\ ret = Some(Head(Contents(pre)))
             /\ len(buffer) = len(pre)
             /\ Contents(buffer) = Append(Tail(Contents(pre)), op[2])

C2_Witness ==
    /\ Library /\ op[1] = "push_back"
    /\ capacity(pre) >= 2
    /\ is_full(pre)
    /\ pre.start > 0
    /\ ret = Some(Head(Contents(pre)))
    /\ Head(Contents(pre)) # op[2]

\* C3: in every state reached through new, push_back, pop_front, pop_back, drain
\* and make_contiguous (and the iterators), len <= capacity, and the capacity is
\* the one given to new: the storage is never resized.
C3_LenWithinCapacity ==
    Library =>
        /\ len(buffer) <= capacity(buffer)
        /\ capacity(buffer) = capacity_given
        /\ DOMAIN buffer.items = 0 .. capacity_given - 1

C3_Witness ==
    /\ Library
    /\ op[1] = "push_back"
    /\ is_full(pre) /\ is_full(buffer)
    /\ capacity_given = MaxCap
    /\ ~only_push

\* C4: pop_front removes and returns the oldest element, pop_back the newest;
\* len drops by one and the other elements keep their order.  On an empty buffer
\* (or one of capacity 0) both return None and change nothing.
C4_Pop ==
    /\ (Library /\ op[1] = "pop_front") =>
          IF len(pre) = 0
          THEN ret = None /\ buffer = pre
          ELSE /\ ret = Some(Head(Contents(pre)))
               /\ len(buffer) = len(pre) - 1
               /\ Contents(buffer) = Tail(Contents(pre))
    /\ (Library /\ op[1] = "pop_back") =>
          IF len(pre) = 0
          THEN ret = None /\ buffer = pre
          ELSE /\ ret = Some(Contents(pre)[len(pre)])
               /\ len(buffer) = len(pre) - 1
               /\ Contents(buffer) = SubSeq(Contents(pre), 1, len(pre) - 1)

C4_Witness ==
    /\ Library /\ op[1] = "pop_front"
    /\ Wrapped(pre)
    /\ len(pre) >= 2
    /\ pre.start = capacity(pre) - 1
    /\ buffer.start = 0
    /\ Contents(buffer) = Tail(Contents(pre))

\* C5: make_contiguous returns one slice equal to the logical sequence and
\* leaves len and the logical sequence as they were, in every layout.
C5_MakeContiguousKeepsSequence ==
    (Library /\ op[1] = "make_contiguous") =>
        /\ ret = Contents(pre)
        /\ len(buffer) = len(pre)
        /\ Contents(buffer) = Contents(pre)

C5_Witness ==
    /\ Library /\ op[1] = "make_contiguous"
    /\ Wrapped(pre)
    /\ pre.start > 0
    /\ ~is_full(pre)
    /\ len(pre) >= 2
    /\ ret = Contents(pre)
    /\ \E i, j \in 1 .. Len(ret) : ret[i] # ret[j]

\* The logical sequence of b lies in the storage slots from .. from + len - 1.
OccupiesFrom(b, from) ==
    /\ from + b.size <= capacity(b)
    /\ \A i \in 1 .. b.size : b.items[from + i - 1] = Contents(b)[i]

\* C6 as stated: after make_contiguous on a non-empty buffer the start offset
\* is 0 and the logical sequence occupies the slots [0, len), whatever the layout
\* before the call.
C6_StartResetAlways ==
    (Library /\ op[1] = "make_contiguous" /\ len(pre) > 0) =>
        /\ buffer.start = 0
        /\ OccupiesFrom(buffer, 0)

\* C6 amended: after make_contiguous on a non-empty buffer the logical sequence
\* occupies the slots [start, start + len) without wrapping.  The start offset
\* is 0 when the sequence reached the end of the storage before the call
\* (start + len >= capacity); otherwise the start offset and the storage are
\* left as they were.
C6_StartResetWhenWrapped ==
    (Library /\ op[1] = "make_contiguous" /\ len(pre) > 0) =>
        /\ buffer.start + len(buffer) <= capacity(buffer)
        /\ OccupiesFrom(buffer, buffer.start)
        /\ IF pre.start + len(pre) >= capacity(pre)
           THEN buffer.start = 0
           ELSE buffer = pre

C6_Witness ==
    /\ Library /\ op[1] = "make_contiguous"
    /\ Wrapped(pre)
    /\ pre.start > 0
    /\ buffer.start = 0
    /\ OccupiesFrom(buffer, 0)
    /\ buffer.items # pre.items

\* C7: drain(a..b) with a <= b <= len yields the elements at the logical
\* positions a..b in order and leaves the others in their order, len reduced by
\* b - a; a range with b > len or a > b panics and removes nothing.  In
\* write_callback, drain(0..DrainBlock) runs exactly when a block is staged and
\* removes the DrainBlock oldest staged samples.
C7_Drain ==
    /\ (Library /\ op[1] = "drain") =>
          LET a == op[2]
              b == op[3]
              c == Contents(pre)
          IN IF a <= b /\ b <= len(pre)
             THEN /\ ~panicked
                  /\ ret = SubSeq(c, a + 1, b)
                  /\ Contents(buffer) = SubSeq(c, 1, a) \o SubSeq(c, b + 1, Len(c))
                  /\ len(buffer) = len(pre) - (b - a)
             ELSE panicked /\ buffer = pre
    /\ (client = "app" /\ callback.input # <<>>) =>
          /\ ~callback.panic
          /\ callback.drains <=> Len(callback.staged) >= DrainBlock
          /\ IF callback.drains
             THEN /\ callback.drained = SubSeq(callback.staged, 1, DrainBlock)
                  /\ Contents(sample_buffer) =
                        SubSeq(callback.staged, DrainBlock + 1, Len(callback.staged))
             ELSE Contents(sample_buffer) = callback.staged

C7_Witness ==
    /\ Library /\ op[1] = "drain"
    /\ Wrapped(pre)
    /\ op[2] >= 1
    /\ op[3] = op[2] + 1
    /\ op[3] < len(pre)
    /\ ~panicked
    /\ ret = <<Contents(pre)[op[3]]>>
    /\ len(buffer) = len(pre) - 1

\* C8: on a buffer created with capacity 0, push_back(x) returns Some(x) and
\* stores nothing, and push_back, pop_front, pop_back, as_slices,
\* make_contiguous and the iterators leave the buffer empty (len = 0,
\* start = 0) and do not panic.
C8_CapacityZero ==
    (Library /\ capacity_given = 0) =>
        /\ buffer = new(0)
        /\ len(buffer) = 0 /\ buffer.start = 0
        /\ op[1] # "drain" => ~panicked
        /\ op[1] = "push_back" => ret = Some(op[2])
        /\ op[1] \in {"pop_front", "pop_back"} => ret = None
        /\ op[1] = "make_contiguous" => ret = <<>>
        /\ op[1] \in {"iter", "iter_mut"} => it.right = <<>> /\ it.left = <<>>
        /\ op[1] \in {"next", "next_back"} => ret = None

C8_Witness ==
    /\ Library /\ capacity_given = 0
    /\ op[1] = "push_back"
    /\ ret = Some(op[2])
    /\ buffer = new(0)

\* What the live iterator has still to yield, front first.
Remaining ==
    IF it.kind = "into_iter" THEN Contents(buffer) ELSE it.right \o it.left

\* C9: an iterator over the buffer (iter, iter_mut, into_iter) yields the len
\* elements from front to back by next and from back to front by next_back, and
\* any interleaving of the two yields every element exactly once: what next
\* yielded, what is left and what next_back yielded (reversed) are the buffer's
\* sequence, and None comes only when nothing is left.
C9_Iteration ==
    (Library /\ it.kind # "none") =>
        /\ yielded.front \o Remaining \o Reverse(yielded.back) = yielded.orig
        /\ op[1] \in {"iter", "iter_mut", "into_iter"} =>
              /\ Len(Remaining) = len(buffer)
              /\ yielded.orig = Contents(buffer)
        /\ (op[1] \in {"next", "next_back"} /\ ret = None) => Remaining = <<>>
        /\ (op[1] \in {"next", "next_back"} /\ ret # None) =>
              Len(yielded.front) + Len(yielded.back) + Len(Remaining)
                  = Len(yielded.orig)

C9_Witness ==
    /\ Library /\ it.kind = "iter"
    /\ Wrapped(buffer)
    /\ buffer.start > 0
    /\ Remaining = <<>>
    /\ Len(yielded.front) >= 1
    /\ Len(yielded.back) >= 2
    /\ yielded.front \o Reverse(yielded.back) = Contents(buffer)
    /\ \E i, j \in 1 .. len(buffer) : Contents(buffer)[i] # Contents(buffer)[j]

RECURSIVE BitReverse(_, _)
\* i with its lowest `bits` bits in reverse order.
BitReverse(i, bits) ==
    IF bits = 0 THEN 0
    ELSE (i % 2) * Pow2(bits - 1) + BitReverse(i \div 2, bits - 1)

\* log2 of a power of two.
Log2(n) == BitLen(n) - 1

\* The slice d as a sequence.
AsSeq(d) == [i \in 1 .. SliceLen(d) |-> d[i - 1]]

\* C10: for a power-of-two length N, rearrange moves the element at index i to
\* the index that is i with its log2(N) bits reversed (0..7 becomes
\* 0,4,2,6,1,5,3,7), and a second rearrange restores the original order.
C10_BitReversal ==
    (client = "fft" /\ is_power_of_two(SliceLen(input))) =>
        LET n == SliceLen(input)
        IN /\ SliceLen(data) = n
           /\ passes = 1 =>
                 /\ \A i \in 0 .. n - 1 : data[BitReverse(i, Log2(n))] = input[i]
                 /\ AsSeq(input) = <<0, 1, 2, 3, 4, 5, 6, 7>> =>
                       AsSeq(data) = <<0, 4, 2, 6, 1, 5, 3, 7>>
           /\ passes = 2 => data = input

C10_Witness ==
    /\ client = "fft"
    /\ passes = 2
    /\ AsSeq(input) = <<0, 1, 2, 3, 4, 5, 6, 7>>
    /\ data = input
    /\ AsSeq(rearrange(input)) = <<0, 4, 2, 6, 1, 5, 3, 7>>

\* ------------------------------------------------------------------ C11
\* C11 as stated: freq_table(n, dt) has n entries for every n >= 1, entry i
\* is i / (n * dt) for every i <= n / 2 (entry n / 2 is the positive Nyquist
\* frequency) and (i - n) / (n * dt) for every i > n / 2.  The table holds
\* the numerators, so entry i is i or i - n.
C11_FreqTableAsStated ==
    (call.name = "freq_table" /\ call.n >= 1 /\ ~call.panic) =>
        /\ SliceLen(call.ret) = call.n
        /\ \A i \in DOMAIN call.ret :
              call.ret[i] = IF i <= call.n \div 2 THEN i ELSE i - call.n

\* ------------------------------------------------------------------ C12
\* n is a power of two: 1, 2, 4, ...
IsPowerOfTwo(n) == \E k \in 0 .. UsizeBits : n = Pow2(k)

\* C12: FFT::fft returns Err exactly when the length of the slice is not a
\* power of two, Ok otherwise, and panics for no length, 0 and the lengths
\* between the powers of two included.
C12_StrictEntryPoint ==
    call.name = "FFT::fft" =>
        /\ ~call.panic
        /\ call.ret = "Err" <=> ~IsPowerOfTwo(SliceLen(call.input))
        /\ call.ret = "Ok" <=> IsPowerOfTwo(SliceLen(call.input))

\* fft was given 6 elements: it moved some of them and returned Err.
C12_Witness ==
    /\ call.name = "FFT::fft"
    /\ SliceLen(call.input) = 6
    /\ call.ret = "Err"
    /\ call.data # call.input

\* ------------------------------------------------------------------ C13
\* The largest power of two that is at most n (n >= 1).
LargestPowerOfTwo(n) ==
    CHOOSE p \in {Pow2(k) : k \in 0 .. UsizeBits} : p <= n /\ n < 2 * p

\* C13: for every length L >= 1 FFT::new keeps exactly the first p samples,
\* p the largest power of two <= L, and does not panic; lower_power_of_two(n)
\* is the largest power of two <= n for every n >= 1 of the usize range.
C13_Truncation ==
    /\ (call.name = "FFT::new" /\ SliceLen(call.input) >= 1) =>
          /\ ~call.panic
          /\ call.data = [i \in 0 .. LargestPowerOfTwo(SliceLen(call.input)) - 1 |->
                             call.input[i]]
    /\ (call.name = "lower_power_of_two" /\ call.n >= 1) =>
          /\ ~call.panic
          /\ call.ret = LargestPowerOfTwo(call.n)

\* FFT::new was given 7 samples and kept the first 4.
C13_Witness ==
    /\ call.name = "FFT::new"
    /\ SliceLen(call.input) = 7
    /\ SliceLen(call.data) = 4

\* ------------------------------------------------------------------ C17
\* The product of a and b as f32 values.
Times(a, b) == IF a = NaN \/ b = NaN THEN NaN ELSE a * b

\* The call was apply_harmonic_product_spectrum.
HpsCall == call.name = "apply_harmonic_product_spectrum"

\* The buffer before harmonic h of the call.
Before(h) == IF h = 2 THEN call.buffer ELSE call.after[h - 1]

\* C17: every factor multiplied into a bin is a value the buffer held on
\* entry (a harmonic h leaves bin b alone or multiplies it by the entry value
\* of bin b * h, whatever the earlier harmonics did to that bin), and with
\* count <= 1 the buffer is unchanged.
C17_FrozenCopy ==
    HpsCall =>
        /\ \A h \in 2 .. call.count : \A b \in DOMAIN call.buffer :
              \/ call.after[h][b] = Before(h)[b]
              \/ /\ b * h \in DOMAIN call.buffer
                 /\ call.after[h][b] = Times(Before(h)[b], call.buffer[b * h])
        /\ call.count >= 2 => call.ret = call.after[call.count]
        /\ call.count <= 1 => call.ret = call.buffer

\* Harmonic 3 multiplied bin 0 by its entry value although harmonic 2 had
\* changed the bin before.
C17_Witness ==
    /\ HpsCall
    /\ call.count = 3
    /\ SliceLen(call.buffer) >= 1
    /\ call.after[2][0] # call.buffer[0]
    /\ call.after[3][0] = Times(call.after[2][0], call.buffer[0])

\* ------------------------------------------------------------------ C18
RECURSIVE HarmonicProduct(_, _, _)
\* original[b] times original[b * h] for every h in 2 .. count with
\* b * h < len.
HarmonicProduct(original, b, count) ==
    IF count < 2 THEN original[b]
    ELSE LET rest == HarmonicProduct(original, b, count - 1)
         IN IF b * count < SliceLen(original)
            THEN Times(rest, original[b * count]) ELSE rest

\* C18: harmonic h multiplies exactly the bins b with b < len / h (that is
\* b * h < len) by the entry value of bin b * h and leaves every other bin
\* unchanged, so bin b ends as original[b] times the product of
\* original[b * h] over the h in 2 .. count with b < len / h.
C18_HarmonicProduct ==
    HpsCall =>
        /\ \A h \in 2 .. call.count : \A b \in DOMAIN call.buffer :
              call.after[h][b] =
                  IF b * h < SliceLen(call.buffer)
                  THEN Times(Before(h)[b], call.buffer[b * h])
                  ELSE Before(h)[b]
        /\ \A b \in DOMAIN call.buffer :
              call.ret[b] = HarmonicProduct(call.buffer, b, call.count)

\* Harmonic 2 on a spectrum of 3 bins, which 2 does not divide: bin 1 is
\* multiplied by bin 2, and bin 2 is left alone.
C18_Witness ==
    /\ HpsCall
    /\ call.count = 2
    /\ SliceLen(call.buffer) = 3
    /\ call.buffer[2] = 2
    /\ call.ret[1] = 2 * call.buffer[1]
    /\ call.ret[2] = call.buffer[2]

\* ------------------------------------------------------------------ C14
\* strongest_freq was called on the analyzer under test and returned.
Analyzed == analysis.name = "strongest_freq" /\ ~analysis.panic

\* The analyzer's ring holds no sample other than 0.0.
Silent ==
    \A i \in 1 .. len(tuner.buffer) :
        SampleValue(Contents(tuner.buffer)[i]) = 0

\* C14 as stated: after strongest_freq on an analyzer whose ring holds only
\* zero samples (or none) the frequency returned is 0.0, the first bin, and
\* every entry of get_result_buffer is finite.
C14_SilenceAsStated ==
    (Analyzed /\ Silent) =>
        /\ analysis.ret = Some(0)
        /\ \A b \in DOMAIN get_result_buffer(tuner) :
              get_result_buffer(tuner)[b] # NaN

\* ------------------------------------------------------------------ C15
\* C15 as stated: strongest_freq selects the lowest index among the bins
\* that hold the maximum of the half spectrum after the harmonic product and
\* the suppression.
C15_FirstMaximumAsStated ==
    Analyzed =>
        \A j \in DOMAIN analysis.half_data :
            /\ total_le(analysis.half_data[j],
                        analysis.half_data[analysis.index[2]],
                        analysis.nan_positive)
            /\ j < analysis.index[2] =>
                  ~total_le(analysis.half_data[analysis.index[2]],
                            analysis.half_data[j], analysis.nan_positive)

\* ------------------------------------------------------------------ C16
\* C16 as stated: strongest_freq completes without panic and returns a
\* value for every analyzer AudioAnalyzer::new can construct and every fill
\* level of its ring.
C16_NeverPanicsAsStated ==
    analysis.name = "strongest_freq" =>
        /\ ~analysis.panic
        /\ analysis.ret # None

\* ------------------------------------------------------------------ C19
\* The frequency of bin b of the last transform is above 60 Hz.
AboveLowCut(b) ==
    analysis.table[b] * tuner.sample_rate > LowCut * SliceLen(analysis.table)

\* C19 as stated: after strongest_freq every bin of the half spectrum whose
\* frequency is at most 60 Hz is zero and no bin whose frequency is above
\* 60 Hz was changed by the suppression, whatever the sample rate and the
\* length of the transform.
C19_SuppressionAsStated ==
    Analyzed =>
        \A b \in DOMAIN analysis.half_data :
            /\ ~AboveLowCut(b) => analysis.half_data[b] = 0
            /\ AboveLowCut(b) => analysis.half_data[b] = analysis.hps[b]

\* ------------------------------------------------------------------ C20
\* C20: after strongest_freq returns, get_result_buffer is the half spectrum
\* after the harmonic product and the suppression, the bin of the frequency
\* returned holds a maximum of it, and add_samples and get_result_buffer
\* leave the cached buffer as it was.
C20_CachedSpectrum ==
    /\ Analyzed =>
          /\ get_result_buffer(tuner) = analysis.half_data
          /\ analysis.half_data =
                 LET product == apply_harmonic_product_spectrum(
                                    tuner.hps_count, analysis.magnitudes)
                 IN IF analysis.cut = None THEN product
                    ELSE [b \in DOMAIN product |->
                             IF b < analysis.cut[2] THEN 0 ELSE product[b]]
          /\ analysis.index[2] \in DOMAIN get_result_buffer(tuner)
          /\ \A j \in DOMAIN get_result_buffer(tuner) :
                total_le(get_result_buffer(tuner)[j],
                         get_result_buffer(tuner)[analysis.index[2]],
                         analysis.nan_positive)
          /\ analysis.ret =
                 Some(loudest_freq(analysis.index[2], tuner.sample_rate,
                                   SliceLen(analysis.table)))
    /\ analysis.name = "add_samples" =>
          get_result_buffer(tuner) = analysis.cached
    /\ analysis.name = "get_result_buffer" =>
          /\ get_result_buffer(tuner) = analysis.cached
          /\ analysis.ret = analysis.cached

\* add_samples was called on an analyzer whose cache holds a spectrum that
\* is not all zero, and the cache is still there.
C20_Witness ==
    /\ client = "tuner"
    /\ analysis.name = "add_samples"
    /\ \E b \in DOMAIN tuner.result_buffer : tuner.result_buffer[b] > 0
    /\ tuner.result_buffer = analysis.cached

\* ------------------------------------------------------------------ C21
\* The analyzer a with its scratch buffer and its result buffer filled with
\* the value v: the same configuration and the same ring, another past.
WithPast(a, v) == [a EXCEPT !.padded_buffer = [i \in DOMAIN a.padded_buffer |-> v], !.result_buffer = [i \in DOMAIN a.result_buffer |-> v]]

Pasts == {0, 1, NaN}

\* C21: strongest_freq is a function of the analyzer's configuration and of
\* the contents of its ring only.  A call that returns leaves the ring as it
\* was; when the call before it was strongest_freq too, both returned the
\* same value and left the same result buffer; and the value returned, the
\* result buffer and the scratch buffer are the ones the call gives on an
\* analyzer of the same configuration and ring whose scratch and result
\* buffers held anything else before.
C21_FunctionOfRing ==
    client = "tuner" /\ analysis.name = "strongest_freq" /\ ~analysis.panic =>
        /\ tuner.buffer = analysis.ring
        /\ analysis.previous # NoPrevious =>
               analysis.previous = <<analysis.ret, tuner.result_buffer>>
        /\ \A v \in Pasts :
               \E other \in {strongest_freq(WithPast(tuner, v), signal,
                                             analysis.nan_positive)} :
                  /\ ~other.panic
                  /\ other.ret = analysis.ret
                  /\ other.analyzer.result_buffer = tuner.result_buffer
                  /\ other.analyzer.padded_buffer = tuner.padded_buffer
                  /\ other.analyzer.buffer = tuner.buffer

\* strongest_freq was called twice in a row on a ring that holds samples,
\* and the spectrum it left is not all zero.
C21_Witness ==
    /\ client = "tuner"
    /\ analysis.name = "strongest_freq"
    /\ ~analysis.panic
    /\ analysis.previous # NoPrevious
    /\ len(tuner.buffer) > 0
    /\ \E b \in DOMAIN tuner.result_buffer : tuner.result_buffer[b] > 0

\* ------------------------------------------------------------------ C28
\* The name at position i (from 0) of the table of note names.
NameAt(i) == <<"C", "C#", "D", "D#", "E", "F", "F#", "G", "G#", "A", "A#", "B">>[i + 1]

\* C28: Note::from_number(n) is the note whose name is the one at position
\* n mod 12 of the table C, C#, D, D#, E, F, F#, G, G#, A, A#, B; the
\* unreachable arm is never reached; note number 69 is "A".
C28_NoteOfNumber ==
    client = "call" /\ call.name = "from_number" =>
        /\ ~call.panic
        /\ call.str = NameAt(call.number % 12)
        /\ call.number = 69 => call.ret = "A" /\ call.str = "A"

\* from_number was called on the note number of the reference pitch.
C28_Witness ==
    /\ client = "call"
    /\ call.name = "from_number"
    /\ call.number = 69
    /\ call.str = "A"

\* ------------------------------------------------------------------ C22
\* The places where a thread reads or writes the shared sample buffer and
\* analyzer: the body of write_callback, the snapshot and strongest_freq of
\* the run loop, the replacement of swap_device.
AudioInside == run.audio = "write"
MainInside == run.main \in {"snapshot", "swap_replace"}

\* C22: the audio thread and the main thread touch the shared sample buffer
\* and analyzer only while they hold the locks, and every such section is
\* guarded by one and the same Mutex (each section holds both the
\* sample_buffer Mutex and the audio_analyzer Mutex), so the block append of
\* write_callback never overlaps the snapshot and strongest_freq of the run
\* loop or the replacement of swap_device.
C22_OneLock ==
    client = "run" =>
        /\ AudioInside => /\ run.sample_buffer_lock = "audio"
                          /\ run.audio_analyzer_lock = "audio"
        /\ MainInside => /\ run.sample_buffer_lock = "main"
                         /\ run.audio_analyzer_lock = "main"
        /\ ~(AudioInside /\ MainInside)

\* write_callback is appending a block while the run loop waits for the
\* analyzer's lock.
C22_Witness ==
    /\ client = "run"
    /\ AudioInside
    /\ run.input # <<>>
    /\ run.main = "analyzer"
    /\ run.audio_analyzer_lock = "audio"

\* ------------------------------------------------------------------ C23
\* C23 as stated: no interleaving of write_callback, App::run and
\* swap_device reaches a state in which the audio thread holds one lock and
\* waits for the one the main thread holds while the main thread waits for
\* the one the audio thread holds.
C23_NoDeadlockAsStated ==
    ~ /\ client = "run"
      /\ run.audio = "analyzer"
      /\ run.sample_buffer_lock = "audio"
      /\ run.audio_analyzer_lock = "main"
      /\ run.main \in {"buffer", "swap_buffer"}

\* ------------------------------------------------------------------ C24
\* The samples of a sequence are in the order of their delivery, none twice:
\* the k-th sample delivered is the number k.
InDeliveryOrder(samples) == \A i, j \in 1 .. Len(samples) : i < j => samples[i] < samples[j]

\* C24: whenever the run loop holds the locks, the samples in the analyzer's
\* ring are in the order in which they were delivered to write_callback,
\* none of them twice.
C24_HandOffKeepsOrder ==
    client = "run" /\ run.main = "snapshot" =>
        /\ InDeliveryOrder(Contents(audio_analyzer.buffer))
        /\ \A i \in 1 .. len(audio_analyzer.buffer) :
               Contents(audio_analyzer.buffer)[i] \in 1 .. delivered

\* The run loop holds the locks and the analyzer's ring is full and has
\* lost its oldest samples.
C24_Witness ==
    /\ client = "run"
    /\ run.main = "snapshot"
    /\ len(audio_analyzer.buffer) = capacity(audio_analyzer.buffer)
    /\ Contents(audio_analyzer.buffer)[1] > 1

\* ------------------------------------------------------------------ C25
\* A sample of a closed stream.
IsOld(sample) == sample <= run.old

\* C25 as stated: once swap_device has completed, no sample delivered by a
\* closed stream is in the new analyzer, and the run loop never finds old
\* staged samples next to the new analyzer.
C25_ReplacedTogetherAsStated ==
    client = "run" /\ run.current_stream # None =>
        /\ \A i \in 1 .. len(audio_analyzer.buffer) :
               ~IsOld(Contents(audio_analyzer.buffer)[i])
        /\ run.main = "snapshot" =>
               \A i \in 1 .. len(sample_buffer) :
                   ~IsOld(Contents(sample_buffer)[i])

\* ------------------------------------------------------------------ C26
\* swap_device has returned.
SwapReturned == run.main \in {"swap_err", "swap_ok"}

\* C26: when the selected device has no float config, swap_device returns
\* Err and changes nothing: no stream is built or stored, the analyzer is
\* the one there was, no lock is held.
C26_NoFloatNoChange ==
    client = "run" /\ SwapReturned /\ ~run.floats[run.device_number] =>
        /\ run.main = "swap_err"
        /\ run.current_stream = None
        /\ run.built = None
        /\ ~run.playing
        /\ audio_analyzer = run.before
        /\ run.audio_analyzer_lock = "free"
        /\ run.sample_buffer_lock = "free"

\* swap_device failed on a device without a float config after an earlier
\* stream had filled the analyzer.
C26_Witness ==
    /\ client = "run"
    /\ run.main = "swap_err"
    /\ ~run.floats[run.device_number]
    /\ len(audio_analyzer.buffer) > 0
    /\ audio_analyzer = run.before

\* ------------------------------------------------------------------ C27
\* C27 as stated: after swap_device failed and no stream is open, the run
\* loop does not panic when the user selects another device that has a
\* float config.
C27_RecoversAsStated ==
    ~ /\ client = "run"
      /\ run.failed
      /\ run.current_stream = None
      /\ run.floats[run.device_number]
      /\ run.main = "panic"

\* ------------------------------------------------------------------ C29
\* a and b, counted in quarters, differ by at most 1e-4: quarters that
\* differ are 0.25 apart or more.
Within1e4(a, b) == Abs(a - b) <= 1 /\ Abs(a - b) * 10000 <= Quarter

\* The round trip gave back what it was given, within 1e-4.
Reproduced ==
    \A k \in DOMAIN call.input :
        /\ Within1e4(call.ret[k][1], call.input[k][1])
        /\ Within1e4(call.ret[k][2], call.input[k][2])

SmallInput ==
    \A k \in DOMAIN call.input :
        /\ Abs(call.input[k][1]) <= MaxAmp * Quarter
        /\ Abs(call.input[k][2]) <= MaxAmp * Quarter

C31_ModularArithmetic ==
    client = "call" /\ call.name = "add_mod" =>
        /\ ~call.panic
        /\ call.ret = (call.x + call.y) % call.m
        /\ call.sub = (call.x - call.y) % call.m

\* add_mod was called on a sum that exceeds usize::MAX, with a modulus that
\* does not divide 2^w.
C31_Witness ==
    /\ client = "call"
    /\ call.name = "add_mod"
    /\ call.x + call.y > UsizeMax
    /\ Pow2(UsizeBits) % call.m # 0
    /\ call.ret = (call.x + call.y) % call.m

\* ---------------------------------------------- C32: reads of initialized slots
\* The storage slots of the logical region [start, start + len) mod capacity.
Region(b) ==
    IF capacity(b) = 0 THEN {} ELSE {get_index(b, i) : i \in 0 .. b.size - 1}

\* The slots a call on b reads as initialized values: the slot pop_front and
\* the overwrite of push_back take, the slot pop_back takes, and the slots
\* under the slices of as_slices and as_mut_slices (make_contiguous returns
\* as_mut_slices().0 after the rotation).
SlotsRead(b) ==
    IF capacity(b) = 0 \/ b.size = 0 THEN {}
    ELSE LET start == b.start
             end == add_mod(b.start, b.size, capacity(b))
         IN {start, add_mod(b.start, b.size - 1, capacity(b))}
            \cup (IF start < end THEN start .. end - 1
                  ELSE (start .. capacity(b) - 1) \cup (0 .. end - 1))

\* The values handed out by the reads of b and by the live iterator.
ValuesRead(b, i) ==
    LET slices == as_slices(b)
        mut_slices == as_mut_slices(b)
        contiguous == make_contiguous(b).ret
        Of(s) == {s[k] : k \in DOMAIN s}
        OfOption(r) == IF r = None THEN {} ELSE {r[2]}
    IN Of(slices[1]) \cup Of(slices[2]) \cup Of(mut_slices[1]) \cup Of(mut_slices[2])
       \cup Of(contiguous) \cup Of(i.right) \cup Of(i.left)
       \cup OfOption(pop_front(b).ret) \cup OfOption(pop_back(b).ret)
       \cup (IF capacity(b) > 0 /\ is_full(b)
             THEN OfOption(push_back(b, 1).ret) ELSE {})

\* C32: in every state reached by buffer operations, a slot holds a value
\* exactly when it lies in the logical region [start, start + len) mod
\* capacity, every slot that pop_front, pop_back, the overwrite of push_back,
\* as_slices, as_mut_slices, make_contiguous or an iterator reads lies in that
\* region, and no value read is that of a slot without a value.
C32_ReadsOnlyInitialized ==
    ~panicked =>
        /\ \A j \in DOMAIN buffer.items :
              buffer.items[j] # Uninit <=> j \in Region(buffer)
        /\ SlotsRead(buffer) \subseteq Region(buffer)
        /\ Uninit \notin ValuesRead(buffer, it)

\* A wrapped, partly filled buffer (a slot outside the region exists) right
\* after an element was popped from the front.
C32_Witness ==
    /\ client = "library"
    /\ ~panicked
    /\ op = <<"pop_front">>
    /\ ret # None
    /\ buffer.size > 0
    /\ buffer.size < capacity(buffer)
    /\ buffer.start + buffer.size > capacity(buffer)

\* ------------------------------------------------------------------ C33
\* C33: after the copy step of strongest_freq on a ring of L samples, scratch
\* position i holds sample_i * window_i for every i < L (oldest sample
\* first) and 0.0 for every i >= L, whatever the scratch buffer held before:
\* the scratch buffer left by the call, and the one the copy gives from a
\* scratch buffer filled with any other value, are both that sequence.
C33_ScratchAfterCopy ==
    client = "tuner" /\ analysis.name = "strongest_freq" =>
        LET samples == Contents(analysis.ring)
            L == len(analysis.ring)
            expected == [i \in DOMAIN tuner.padded_buffer |->
                            IF i < L
                            THEN FMul(SampleValue(samples[i + 1]), tuner.window[i])
                            ELSE 0]
        IN /\ L <= capacity(analysis.ring)
           /\ L <= SliceLen(tuner.window)
           /\ L <= SliceLen(tuner.padded_buffer)
           /\ tuner.padded_buffer = expected
           /\ \A v \in Pasts :
                 copy_to_zero_padded_buffer(
                     WithPast([tuner EXCEPT !.buffer = analysis.ring], v)
                 ).padded_buffer = expected

\* strongest_freq ran on a ring that has wrapped and is shorter than the
\* scratch buffer, and a windowed sample is not zero.
C33_Witness ==
    /\ client = "tuner"
    /\ analysis.name = "strongest_freq"
    /\ analysis.ring.start > 0
    /\ len(analysis.ring) > 0
    /\ len(analysis.ring) < SliceLen(tuner.padded_buffer)
    /\ \E i \in DOMAIN tuner.padded_buffer :
          i < len(analysis.ring) /\ tuner.padded_buffer[i] > 0

\* ------------------------------------------------------------------ C34
\* The smallest power of two that is at least n.
next_power_of_two(n) ==
    CHOOSE p \in {Pow2(k) : k \in 0 .. UsizeBits} :
        p >= n /\ \A q \in {Pow2(k) : k \in 0 .. UsizeBits} : q >= n => p <= q

\* C34 as stated: for every buffer_size >= 1 and zero_padding_factor >= 0
\* the window table and the ring of a new analyzer have the length
\* window_length = lower_power_of_two(buffer_size), and its scratch buffer
\* has the length of the smallest power of two that is at least
\* window_length * (1 + zero_padding_factor).
C34_PaddedLengthAsStated ==
    client = "call" /\ call.name = "AudioAnalyzer::new" /\ ~call.panic =>
        LET window_length == lower_power_of_two(call.buffer_size)
        IN /\ SliceLen(call.ret.window) = window_length
           /\ capacity(call.ret.buffer) = window_length
           /\ SliceLen(call.ret.padded_buffer) =
                  next_power_of_two(window_length * (1 + call.zero_padding_factor))

\* ------------------------------------------------------------------ C35
\* C35: the result buffer of every constructed analyzer, and of the analyzer
\* after every call on it, is half as long as its scratch buffer; the half
\* spectrum that strongest_freq copies into it has that length, so that
\* copy_from_slice does not panic on the lengths.
C35_ResultBufferLength ==
    client = "tuner" =>
        /\ SliceLen(tuner.result_buffer) = SliceLen(tuner.padded_buffer) \div 2
        /\ analysis.name = "strongest_freq" =>
              /\ SliceLen(analysis.half_data) = SliceLen(tuner.result_buffer)
              /\ SliceLen(analysis.magnitudes) = SliceLen(tuner.result_buffer)
              /\ ~copy_from_slice(tuner.result_buffer, analysis.half_data).panic

\* strongest_freq returned on an analyzer whose result buffer has two bins
\* and copied a half spectrum that is not silent into it.
C35_Witness ==
    /\ client = "tuner"
    /\ analysis.name = "strongest_freq"
    /\ ~analysis.panic
    /\ SliceLen(tuner.result_buffer) = 2
    /\ SliceLen(tuner.padded_buffer) = 4
    /\ tuner.result_buffer = analysis.half_data
    /\ \E b \in DOMAIN analysis.half_data : analysis.half_data[b] > 0

\* ------------------------------------------------------------------ C39
\* C39 as stated: when FFT::fft returns Err for a length that is not a power
\* of two, the slice holds the elements it was passed, in the same order.
C39_ErrLeavesDataAsStated ==
    client = "call" /\ call.name = "FFT::fft" /\ call.ret = "Err" =>
        call.data = call.input

\* ------------------------------------------------------------------ C38
\* C38: in every state a buffer of capacity >= 1 reaches through its public
\* operations, start < capacity and size <= capacity, and every debug
\* assertion that an operation called in that state evaluates holds: those
\* of the slices, of the front and back accessors, of inc_start, of inc_size
\* (size < capacity), of dec_size (size > 0) and of add_mod (x <= m, y <= m,
\* m > 0).  sub_mod is reached through dec_start only, which nothing calls;
\* its assertions hold for the call dec_start would make.
C38_DebugAssertionsHold ==
    capacity(buffer) >= 1 /\ ~panicked =>
        /\ buffer.start < capacity(buffer)
        /\ buffer.size <= capacity(buffer)
        /\ slices_asserts(buffer)
        /\ pop_asserts(buffer)
        /\ push_back_asserts(buffer)
        /\ sub_mod_asserts(buffer.start, 1, capacity(buffer))

\* A full buffer whose start offset is at the last slot, reached by an
\* overwriting push: the next push wraps the start offset to 0.
C38_Witness ==
    /\ client = "library"
    /\ op[1] = "push_back"
    /\ ret # None
    /\ capacity(buffer) >= 2
    /\ is_full(buffer)
    /\ buffer.start = capacity(buffer) - 1

\* ------------------------------------------------------------------ C37
\* C37 as stated: whatever the positive block lengths of the callbacks, the
\* staging buffer displaces no sample that was not drained to add_samples:
\* no push_back of write_callback returns a sample, and the staging buffer
\* holds the samples delivered and not yet drained, all of them, in order.
C37_NoSampleLostAsStated ==
    client = "app" =>
        /\ callback.evicted = <<>>
        /\ Contents(sample_buffer) =
              [i \in 1 .. len(sample_buffer) |-> delivered - len(sample_buffer) + i]

\* ------------------------------------------------------------------ C36
\* C36 as stated: the note shown changes only at a frame that completes
\* StableFrames frames in a row that all detected the note it changes to;
\* and a frame whose detected note is the one shown, or is not the one being
\* counted, restarts the count.
C36_HysteresisAsStated ==
    client = "frame" =>
        /\ run.changed =>
              /\ run.streak >= StableFrames
              /\ run.shown.nearest_note_num_buffer = run.nearest_note_number
        /\ run.streak > 0 /\ ~run.changed =>
              run.shown.note_number_counter =
                  (IF run.nearest_note_number # run.shown.nearest_note_num_buffer
                   THEN run.streak ELSE 0)

\* ------------------------------------------------------------------ C40
\* C40 as stated: the run loop never indexes the device list out of bounds:
\* whenever swap_device is about to read devices[device_number] (the top of
\* the loop, no stream open), 0 <= device_number < devices.len(), and the
\* read has never panicked; also when the host lists no input device.
C40_DeviceIndexInBoundsAsStated ==
    client = "run" =>
        /\ ~run.out_of_bounds
        /\ run.main = "loop" /\ run.current_stream = None =>
              index_in_bounds(run.devices, run.device_number)

====
